---- MODULE Spec2Model ----
(***************************************************************************)
(* Model of the cropJournal-AI activity pipeline: POST                     *)
(* /api/activities/log-activity with its content validation, audio         *)
(* analysis, transcription, extraction, anti-fraud verification, credit    *)
(* calculation and persistence.                                            *)
(*                                                                         *)
(* Strings are sequences of one-character strings so that trim, split,     *)
(* toLowerCase and includes are computed as the code computes them.        *)
(***************************************************************************)
EXTENDS Integers, Sequences, FiniteSets, TLC

(***************************************************************************)
(* String helpers (JavaScript String methods used by the services)         *)
(***************************************************************************)
\* null / undefined of a string-valued field: no string of the model equals it
NoVal == <<"<null>">>

\* undefined of the optional qualityScore (scores are 0..100)
NoScore == -1

IsSpace(c) == c \in {" ", "\t", "\n"}

IsDigit(c) == c \in {"0","1","2","3","4","5","6","7","8","9"}

DigitVal(c) ==
  CASE c = "0" -> 0 [] c = "1" -> 1 [] c = "2" -> 2 [] c = "3" -> 3 [] c = "4" -> 4
    [] c = "5" -> 5 [] c = "6" -> 6 [] c = "7" -> 7 [] c = "8" -> 8 [] c = "9" -> 9

UpperToLower ==
  [c \in {"A","B","C","D","E","F","G","H","I","J","K","L","M",
          "N","O","P","Q","R","S","T","U","V","W","X","Y","Z"} |->
     CASE c = "A" -> "a" [] c = "B" -> "b" [] c = "C" -> "c" [] c = "D" -> "d"
       [] c = "E" -> "e" [] c = "F" -> "f" [] c = "G" -> "g" [] c = "H" -> "h"
       [] c = "I" -> "i" [] c = "J" -> "j" [] c = "K" -> "k" [] c = "L" -> "l"
       [] c = "M" -> "m" [] c = "N" -> "n" [] c = "O" -> "o" [] c = "P" -> "p"
       [] c = "Q" -> "q" [] c = "R" -> "r" [] c = "S" -> "s" [] c = "T" -> "t"
       [] c = "U" -> "u" [] c = "V" -> "v" [] c = "W" -> "w" [] c = "X" -> "x"
       [] c = "Y" -> "y" [] c = "Z" -> "z"]

toLowerCase(s) ==
  [i \in 1..Len(s) |-> IF s[i] \in DOMAIN UpperToLower THEN UpperToLower[s[i]] ELSE s[i]]

includes(s, sub) ==
  \E i \in 0..(Len(s) - Len(sub)) : SubSeq(s, i + 1, i + Len(sub)) = sub

RECURSIVE trimStart(_)
trimStart(s) ==
  IF s # <<>> /\ IsSpace(Head(s)) THEN trimStart(Tail(s)) ELSE s

RECURSIVE trimEnd(_)
trimEnd(s) ==
  IF s # <<>> /\ IsSpace(s[Len(s)]) THEN trimEnd(SubSeq(s, 1, Len(s) - 1)) ELSE s

trim(s) == trimEnd(trimStart(s))

\* s.replace(/\s+/g, ' ')
RECURSIVE collapseWhitespace(_)
collapseWhitespace(s) ==
  IF s = <<>> THEN <<>>
  ELSE IF IsSpace(Head(s))
       THEN <<" ">> \o collapseWhitespace(trimStart(s))
       ELSE <<Head(s)>> \o collapseWhitespace(Tail(s))

\* s.split(/\s+/): the pieces between maximal whitespace runs, empty pieces
\* at the ends included
RECURSIVE splitFrom(_, _)
splitFrom(s, cur) ==
  IF s = <<>> THEN <<cur>>
  ELSE IF IsSpace(Head(s))
       THEN <<cur>> \o splitFrom(trimStart(s), <<>>)
       ELSE splitFrom(Tail(s), Append(cur, Head(s)))

splitWhitespace(s) == splitFrom(s, <<>>)

SeqRange(q) == {q[i] : i \in 1..Len(q)}

Min(a, b) == IF a < b THEN a ELSE b

Max(a, b) == IF a > b THEN a ELSE b

(***************************************************************************)
(* services/contentValidation.ts                                           *)
(***************************************************************************)
FARMING_KEYWORDS ==
  << <<"c","r","o","p">>,
     <<"c","r","o","p","s">>,
     <<"r","i","c","e">>,
     <<"w","h","e","a","t">>,
     <<"c","o","r","n">>,
     <<"m","a","i","z","e">>,
     <<"c","o","t","t","o","n">>,
     <<"s","u","g","a","r","c","a","n","e">>,
     <<"v","e","g","e","t","a","b","l","e">>,
     <<"v","e","g","e","t","a","b","l","e","s">>,
     <<"f","r","u","i","t">>,
     <<"f","r","u","i","t","s">>,
     <<"t","o","m","a","t","o">>,
     <<"p","o","t","a","t","o">>,
     <<"o","n","i","o","n">>,
     <<"c","a","b","b","a","g","e">>,
     <<"m","a","n","g","o">>,
     <<"b","a","n","a","n","a">>,
     <<"p","a","d","d","y">>,
     <<"f","a","r","m","i","n","g">>,
     <<"f","a","r","m">>,
     <<"a","g","r","i","c","u","l","t","u","r","e">>,
     <<"c","u","l","t","i","v","a","t","i","o","n">>,
     <<"p","l","a","n","t","i","n","g">>,
     <<"h","a","r","v","e","s","t","i","n","g">>,
     <<"i","r","r","i","g","a","t","i","o","n">>,
     <<"w","a","t","e","r","i","n","g">>,
     <<"f","e","r","t","i","l","i","z","e","r">>,
     <<"f","e","r","t","i","l","i","s","e","r">>,
     <<"o","r","g","a","n","i","c">>,
     <<"c","o","m","p","o","s","t">>,
     <<"m","a","n","u","r","e">>,
     <<"s","o","i","l">>,
     <<"f","i","e","l","d">>,
     <<"l","a","n","d">>,
     <<"a","c","r","e">>,
     <<"a","c","r","e","s">>,
     <<"h","e","c","t","a","r","e">>,
     <<"h","e","c","t","a","r","e","s">>,
     <<"p","l","o","u","g","h">>,
     <<"p","l","o","w">>,
     <<"s","o","w","i","n","g">>,
     <<"s","e","e","d","i","n","g">>,
     <<"w","e","e","d","i","n","g">>,
     <<"p","e","s","t">>,
     <<"p","e","s","t","s">>,
     <<"d","i","s","e","a","s","e">>,
     <<"p","e","s","t","i","c","i","d","e">>,
     <<"h","e","r","b","i","c","i","d","e">>,
     <<"c","r","o","p"," ","r","o","t","a","t","i","o","n">>,
     <<"o","r","g","a","n","i","c"," ","f","a","r","m","i","n","g">>,
     <<"s","u","s","t","a","i","n","a","b","l","e">>,
     <<"s","u","s","t","a","i","n","a","b","i","l","i","t","y">>,
     <<"w","a","t","e","r">>,
     <<"r","a","i","n","w","a","t","e","r">>,
     <<"d","r","i","p">>,
     <<"s","p","r","i","n","k","l","e","r">>,
     <<"i","r","r","i","g","a","t","i","o","n">>,
     <<"c","o","n","s","e","r","v","a","t","i","o","n">>,
     <<"s","o","i","l"," ","h","e","a","l","t","h">>,
     <<"s","o","i","l"," ","t","e","s","t","i","n","g">>,
     <<"n","u","t","r","i","e","n","t","s">>,
     <<"p","h">>,
     <<"o","r","g","a","n","i","c"," ","m","a","t","t","e","r">>,
     <<"k","h","e","t">>,
     <<"z","a","m","e","e","n">>,
     <<"f","a","s","a","l">>,
     <<"b","e","e","j">>,
     <<"k","h","a","d">>,
     <<"p","a","a","n","i">> >>

FILLER_WORDS ==
  << <<"u","m">>,
     <<"u","h">>,
     <<"e","r">>,
     <<"a","h">>,
     <<"o","h">>,
     <<"h","e","l","l","o">>,
     <<"h","i">>,
     <<"h","e","y">>,
     <<"t","e","s","t">>,
     <<"t","e","s","t","i","n","g">>,
     <<"y","e","s">>,
     <<"n","o">>,
     <<"o","k">>,
     <<"o","k","a","y">> >>

ACTIVITY_INDICATORS ==
  << <<"d","i","d">>,
     <<"d","o","n","e">>,
     <<"a","p","p","l","i","e","d">>,
     <<"u","s","e","d">>,
     <<"a","d","d","e","d">>,
     <<"s","p","r","e","a","d">>,
     <<"p","l","a","n","t","e","d">>,
     <<"s","o","w","e","d">>,
     <<"h","a","r","v","e","s","t","e","d">>,
     <<"i","r","r","i","g","a","t","e","d">>,
     <<"w","a","t","e","r","e","d">>,
     <<"t","r","e","a","t","e","d">>,
     <<"s","p","r","a","y","e","d">>,
     <<"m","i","x","e","d">>,
     <<"p","r","e","p","a","r","e","d">>,
     <<"c","u","l","t","i","v","a","t","e","d">>,
     <<"r","o","t","a","t","e","d">> >>

MIN_MEANINGFUL_LENGTH == 15

hasFarmingKeywords(text) ==
  LET lowerText == toLowerCase(text)
  IN \E k \in 1..Len(FARMING_KEYWORDS) : includes(lowerText, FARMING_KEYWORDS[k])

hasActivityIndicators(text) ==
  LET lowerText == toLowerCase(text)
  IN \E k \in 1..Len(ACTIVITY_INDICATORS) : includes(lowerText, ACTIVITY_INDICATORS[k])

\* the check for filler words that keeps the case of the text
isOnlyFillerWordsCased(text) ==
  LET pieces == splitWhitespace(text)
      words  == {i \in 1..Len(pieces) : Len(pieces[i]) > 0}
  IN IF words = {} THEN TRUE
     ELSE \A i \in words : pieces[i] \in SeqRange(FILLER_WORDS)

isOnlyFillerWords(text) ==
  LET pieces == splitWhitespace(toLowerCase(text))
      words  == {i \in 1..Len(pieces) : Len(pieces[i]) > 0}
  IN IF words = {} THEN TRUE
     ELSE \A i \in words : pieces[i] \in SeqRange(FILLER_WORDS)

isRepeatedContent(text) ==
  LET words == splitWhitespace(trim(text))
      uniqueWords == SeqRange(words)
  IN \/ Len(words) >= 3 /\ Cardinality(uniqueWords) <= 2 /\ Len(words) >= 5
     \/ \E i \in 1..(Len(text) - 4) :
           /\ text[i] # "\n"
           /\ \A j \in 1..4 : text[i + j] = text[i]

isTooShort(text) ==
  LET cleaned == trim(collapseWhitespace(text))
  IN Len(cleaned) < MIN_MEANINGFUL_LENGTH

lengthScore(length) ==
  IF length >= 100 THEN 30
  ELSE IF length >= 50 THEN 20
  ELSE IF length >= 30 THEN 15
  ELSE IF length >= MIN_MEANINGFUL_LENGTH THEN 10
  ELSE 0

keywordMatches(cleaned) ==
  Cardinality({k \in 1..Len(FARMING_KEYWORDS) :
                 includes(toLowerCase(cleaned), FARMING_KEYWORDS[k])})

\* cleaned.replace(/\s+/g, ' ').length
\* the length without the whitespace runs collapsed
rawLength(cleaned) == Len(cleaned)

normalizedLength(cleaned) == Len(collapseWhitespace(cleaned))

calculateContentQualityScore(text) ==
  LET cleaned == trim(text)
      length  == normalizedLength(cleaned)
      s1 == lengthScore(length)
      s2 == s1 + (IF hasFarmingKeywords(cleaned)
                  THEN Min(keywordMatches(cleaned) * 5, 40) ELSE 0)
      s3 == s2 + (IF hasActivityIndicators(cleaned) THEN 20 ELSE 0)
      s4 == s3 - (IF isRepeatedContent(cleaned) THEN 30 ELSE 0)
      s5 == s4 - (IF isOnlyFillerWords(cleaned) THEN 50 ELSE 0)
  IN IF text = <<>> THEN 0
     ELSE IF Len(cleaned) = 0 THEN 0
     ELSE IF length < MIN_MEANINGFUL_LENGTH THEN 0
     ELSE Max(0, Min(100, s5))

\* the validity check with any positive quality score accepted
isValidFarmingContentAnyScore(text) ==
  LET cleaned == trim(text)
      qualityScore == calculateContentQualityScore(cleaned)
  IN /\ text # <<>>
     /\ Len(cleaned) # 0
     /\ ~isTooShort(cleaned)
     /\ ~isOnlyFillerWords(cleaned)
     /\ ~isRepeatedContent(cleaned)
     /\ qualityScore > 0
     /\ (~hasFarmingKeywords(cleaned) /\ ~hasActivityIndicators(cleaned)
           => qualityScore >= 70)

isValidFarmingContent(text) ==
  LET cleaned == trim(text)
      qualityScore == calculateContentQualityScore(cleaned)
  IN /\ text # <<>>
     /\ Len(cleaned) # 0
     /\ ~isTooShort(cleaned)
     /\ ~isOnlyFillerWords(cleaned)
     /\ ~isRepeatedContent(cleaned)
     /\ qualityScore >= 30
     /\ (~hasFarmingKeywords(cleaned) /\ ~hasActivityIndicators(cleaned)
           => qualityScore >= 70)

(***************************************************************************)
(* Sample texts                                                            *)
(***************************************************************************)
\* "   "
TxtBlank ==
  <<" "," "," ">>

\* "hello test ok okay yes"
TxtFiller ==
  <<"h","e","l","l","o"," ","t","e","s","t"," ","o","k"," ","o","k","a","y"," ","y","e","s">>

\* "watered the plants today"
TxtWatered ==
  <<"w","a","t","e","r","e","d"," ","t","h","e"," ","p","l","a","n","t","s"," ","t","o","d","a","y">>

\* "Applied organic compost to 2 acres of rice fields"
TxtCompost ==
  <<"A","p","p","l","i","e","d"," ","o","r","g","a","n","i","c"," ","c","o","m","p","o","s","t"," ","t","o"," ","2"," ","a","c","r","e","s"," ","o","f"," ","r","i","c","e"," ","f","i","e","l","d","s">>


(***************************************************************************)
(* services/audioAnalysis.ts                                               *)
(***************************************************************************)
BYTES_PER_SECOND == 12000

\* estimateDuration(fileSize) = fileSize / 12000 is a fraction; a comparison
\* duration < n is made on fileSize < n * 12000
durationBelow(fileSize, seconds) == fileSize < seconds * BYTES_PER_SECOND

\* fileSize / duration < limit, the ratio without Math.max(duration, 1): it is
\* 12000 for every file with a byte in it and NaN for an empty one
bytesPerSecondOfDuration(fileSize, limit) ==
  fileSize > 0 /\ BYTES_PER_SECOND < limit

\* fileSize / Math.max(duration, 1) < limit, multiplied out by
\* 12000 * max(duration, 1) = max(fileSize, 12000)
bytesPerSecondBelow(fileSize, limit) ==
  fileSize * BYTES_PER_SECOND < limit * Max(fileSize, BYTES_PER_SECOND)

analyzeAudio(fileSize) ==
  LET d == IF durationBelow(fileSize, 3)
             THEN [score |-> 30, reasons |-> <<"audio_too_short">>]
           ELSE IF durationBelow(fileSize, 5)
             THEN [score |-> 15, reasons |-> <<"audio_short">>]
           ELSE [score |-> 0, reasons |-> <<>>]
      s == IF fileSize < 5000
             THEN [score |-> 30, reasons |-> <<"audio_file_too_small">>]
           ELSE IF fileSize < 10000
             THEN [score |-> 10, reasons |-> <<"audio_file_very_small">>]
           ELSE [score |-> 0, reasons |-> <<>>]
      q == IF bytesPerSecondBelow(fileSize, 1000)
             THEN [score |-> 15, reasons |-> <<"audio_low_quality">>]
           ELSE [score |-> 0, reasons |-> <<>>]
      score == d.score + s.score + q.score
  IN [score   |-> Min(score, 100),
      quality |-> IF score < 20 THEN "good" ELSE IF score < 40 THEN "fair" ELSE "poor",
      reasons |-> d.reasons \o s.reasons \o q.reasons]

(***************************************************************************)
(* services/speechToText.ts                                                *)
(*                                                                         *)
(* The speech service is external: its answer is an input.  kind "ok"      *)
(* carries the transcript field of the answer, "http_error" is a non-2xx   *)
(* answer, "network_error" is fetch rejecting with a plain Error.          *)
(***************************************************************************)
transcribeAudio(fileExists, answer) ==
  LET \* what the try block throws, or "none"
      thrown ==
        IF ~fileExists THEN "AppError"
        ELSE IF answer.kind = "network_error" THEN "Error"
        ELSE IF answer.kind = "http_error" THEN "AppError"
        ELSE IF answer.transcript = <<>> THEN "AppError"
        ELSE IF trim(answer.transcript) = <<>> THEN "AppError"
        ELSE "none"
  IN IF thrown = "none"
     THEN [threw |-> "none", text |-> trim(answer.transcript), unlinked |-> FALSE]
     \* catch: the file is removed when it exists; an AppError is rethrown and
     \* anything else is wrapped into a new AppError
     ELSE [threw |-> "AppError", text |-> <<>>, unlinked |-> fileExists]

(***************************************************************************)
(* services/nlpExtraction.ts                                               *)
(*                                                                         *)
(* The language model is external: its answer is an input.  kind           *)
(* "call_error" is the SDK call rejecting, "no_json" an answer without a   *)
(* {...} block, "bad_json" a block JSON.parse rejects, "json" a parsed      *)
(* object with the four fields.                                            *)
(***************************************************************************)
validTypes ==
  {"organic_input", "water_conservation", "soil_health", "pest_management",
   "crop_rotation", "other"}

substring200(text) == SubSeq(text, 1, Min(Len(text), 200))

NotFarmingMarkers ==
  << <<"n","o","t","_","f","a","r","m","i","n","g">>,
     <<"n","o","t"," ","a"," ","f","a","r","m","i","n","g">>,
     <<"n","o","t"," ","f","a","r","m","i","n","g">> >>

saysNotFarming(description) ==
  LET descriptionLower == toLowerCase(description)
  IN \E k \in 1..Len(NotFarmingMarkers) : includes(descriptionLower, NotFarmingMarkers[k])

NotFarmingPrefix == <<"N","O","T","_","F","A","R","M","I","N","G",":"," ">>

extractActivityData(text, answer) ==
  LET fallback == [activity_type |-> "other", crop_name |-> NoVal, area |-> NoVal,
                   description |-> substring200(text)]
      type1 == IF answer.activity_type \in validTypes THEN answer.activity_type ELSE "other"
      desc1 == IF answer.description = <<>> \/ trim(answer.description) = <<>>
               THEN substring200(text) ELSE answer.description
      notFarming == saysNotFarming(desc1)
  IN CASE answer.kind = "no_json"    -> [threw |-> TRUE, data |-> fallback]
       [] answer.kind = "call_error" -> [threw |-> FALSE, data |-> fallback]
       [] answer.kind = "bad_json"   -> [threw |-> FALSE, data |-> fallback]
       [] answer.kind = "json"       ->
            [threw |-> FALSE,
             data  |-> [activity_type |-> IF notFarming THEN "other" ELSE type1,
                        crop_name     |-> answer.crop_name,
                        area          |-> answer.area,
                        description   |-> IF notFarming THEN NotFarmingPrefix \o desc1
                                          ELSE desc1]]

isValidFarmingExtraction(extractedData) ==
  /\ ~saysNotFarming(extractedData.description)
  /\ ~(extractedData.activity_type = "other" /\ Len(extractedData.description) < 20)

(***************************************************************************)
(* services/creditCalculator.ts                                            *)
(***************************************************************************)
BASE_CREDITS ==
  [organic_input |-> 50, water_conservation |-> 40, soil_health |-> 60,
   pest_management |-> 45, crop_rotation |-> 55, other |-> 30]

\* the multipliers in hundredths, in the table's order
CROP_MULTIPLIERS ==
  << [crop |-> <<"r","i","c","e">>, multiplier |-> 120],
     [crop |-> <<"w","h","e","a","t">>, multiplier |-> 110],
     [crop |-> <<"c","o","r","n">>, multiplier |-> 115],
     [crop |-> <<"c","o","t","t","o","n">>, multiplier |-> 130],
     [crop |-> <<"s","u","g","a","r","c","a","n","e">>, multiplier |-> 125],
     [crop |-> <<"v","e","g","e","t","a","b","l","e","s">>, multiplier |-> 100],
     [crop |-> <<"f","r","u","i","t","s">>, multiplier |-> 110] >>

\* area.match(/(\d+\.?\d*)/) and parseFloat of the match, in tenths; the area
\* strings of the model carry at most one decimal digit
RECURSIVE digitsValue(_, _)
digitsValue(s, acc) ==
  IF s # <<>> /\ IsDigit(Head(s)) THEN digitsValue(Tail(s), acc * 10 + DigitVal(Head(s)))
  ELSE [value |-> acc, rest |-> s]

RECURSIVE dropToDigit(_)
dropToDigit(s) ==
  IF s = <<>> \/ IsDigit(Head(s)) THEN s ELSE dropToDigit(Tail(s))

extractAreaValue(area) ==
  IF area = NoVal \/ area = <<>> THEN 10
  ELSE LET from == dropToDigit(area)
           whole == digitsValue(from, 0)
           frac == IF whole.rest # <<>> /\ Head(whole.rest) = "."
                      /\ Len(whole.rest) >= 2 /\ IsDigit(whole.rest[2])
                   THEN DigitVal(whole.rest[2]) ELSE 0
       IN IF from = <<>> THEN 10 ELSE whole.value * 10 + frac

\* Math.min(1 + areaValue * 0.1, 2), in hundredths
getAreaMultiplier(area) == Min(100 + extractAreaValue(area), 200)

cropMultiplierOf(crop_name) ==
  IF crop_name = NoVal \/ crop_name = <<>> THEN 100
  ELSE LET cropLower == toLowerCase(crop_name)
           hits == {k \in 1..Len(CROP_MULTIPLIERS) : includes(cropLower, CROP_MULTIPLIERS[k].crop)}
       IN IF hits = {} THEN 100
          ELSE CROP_MULTIPLIERS[CHOOSE k \in hits : \A j \in hits : k <= j].multiplier

\* Math.round(n / d) for n >= 0, d > 0
roundDiv(n, d) == (2 * n + d) \div (2 * d)

\* The numbers of calculateCredits are IEEE-754 doubles.  A double is
\* [m, e] for m * 2^e with m below 2^53 (or 2^53 itself), where m is a
\* sequence of digits in base LIMB, the lowest first, without leading zero
\* digits.  Every operation rounds its exact result to the nearest double,
\* ties to the even one.
LIMB == 2 ^ 14

RECURSIVE bigCarry(_, _)
bigCarry(s, c) ==
  IF s = <<>> THEN (IF c = 0 THEN <<>> ELSE <<c % LIMB>> \o bigCarry(<<>>, c \div LIMB))
  ELSE <<(Head(s) + c) % LIMB>> \o bigCarry(Tail(s), (Head(s) + c) \div LIMB)

RECURSIVE bigStrip(_)
bigStrip(s) ==
  IF s # <<>> /\ s[Len(s)] = 0 THEN bigStrip(SubSeq(s, 1, Len(s) - 1)) ELSE s

bigAdd(a, b) ==
  bigStrip(bigCarry([i \in 1..Max(Len(a), Len(b)) |->
                       (IF i <= Len(a) THEN a[i] ELSE 0) + (IF i <= Len(b) THEN b[i] ELSE 0)], 0))

\* a * k for 0 <= k <= 2^16
bigScale(a, k) == bigStrip(bigCarry([i \in 1..Len(a) |-> a[i] * k], 0))

RECURSIVE bigMul(_, _)
bigMul(a, b) ==
  IF b = <<>> THEN <<>>
  ELSE bigAdd(bigScale(a, Head(b)), bigStrip(<<0>> \o bigMul(a, Tail(b))))

\* quotient and remainder of a by k, 0 < k <= LIMB
RECURSIVE bigDivRem(_, _)
bigDivRem(a, k) ==
  IF a = <<>> THEN [q |-> <<>>, r |-> 0]
  ELSE LET hi == bigDivRem(Tail(a), k)
           cur == hi.r * LIMB + Head(a)
       IN [q |-> <<cur \div k>> \o hi.q, r |-> cur % k]

\* a * 2^n and floor(a / 2^n)
bigShl(a, n) == bigStrip([i \in 1..(n \div 14) |-> 0] \o bigScale(a, 2 ^ (n % 14)))

bigShr(a, n) ==
  IF n \div 14 >= Len(a) THEN <<>>
  ELSE bigStrip(bigDivRem(SubSeq(a, n \div 14 + 1, Len(a)), 2 ^ (n % 14)).q)

RECURSIVE bigToInt(_)
bigToInt(a) == IF a = <<>> THEN 0 ELSE Head(a) + LIMB * bigToInt(Tail(a))

\* the double nearest to n * 2^e, or to a value between n * 2^e and
\* (n + 1) * 2^e when inexact says that digits were cut off below n.
\* q is n without its lowest s bits, h is n without its lowest s - 1 bits
roundCut(q, h, n, e, inexact, s) ==
  [m |-> IF h[1] % 2 = 1 /\ (inexact \/ q[1] % 2 = 1 \/ bigShl(h, s - 1) # n)
         THEN bigAdd(q, <<1>>) ELSE q,
   e |-> e + s]

\* s is the number of bits of n beyond the 53 of a double
roundBits(n, e, inexact, s) ==
  IF s <= 0 THEN [m |-> n, e |-> e]
  ELSE roundCut(bigShr(n, s), bigShr(n, s - 1), n, e, inexact, s)

roundToDouble(n, e, inexact) ==
  roundBits(n, e, inexact,
            (IF n = <<>> THEN 0
             ELSE (Len(n) - 1) * 14
                    + (CHOOSE k \in 1..14 : 2 ^ (k - 1) <= n[Len(n)] /\ n[Len(n)] < 2 ^ k))
              - 53)

\* the double of p / q for integers p >= 0 and 0 < q <= LIMB: a decimal
\* literal, parseFloat of a decimal string, a division of two integers
doubleOfRatio(p, q) ==
  LET d == bigDivRem(bigShl(bigCarry(<<>>, p), 70), q)
  IN roundToDouble(bigStrip(d.q), 0 - 70, d.r # 0)

doubleMul(x, y) == roundToDouble(bigMul(x.m, y.m), x.e + y.e, FALSE)

doubleAdd(x, y) ==
  LET e == Min(x.e, y.e)
  IN roundToDouble(bigAdd(bigShl(x.m, x.e - e), bigShl(y.m, y.e - e)), e, FALSE)

\* Math.min(x, y)
doubleMin(x, y) ==
  LET e == Min(x.e, y.e)
      a == bigShl(x.m, x.e - e)
      b == bigShl(y.m, y.e - e)
      less == IF Len(a) # Len(b) THEN Len(a) < Len(b)
              ELSE \E i \in 1..Len(a) : a[i] < b[i] /\ \A j \in (i + 1)..Len(a) : a[j] = b[j]
  IN IF less THEN x ELSE y

\* Math.round of a double x >= 0: floor(x + 1/2), exactly
mathRound(x) ==
  IF x.e >= 0 THEN bigToInt(bigShl(x.m, x.e))
  ELSE bigToInt(bigShr(bigAdd(x.m, bigShl(<<1>>, 0 - x.e - 1)), 0 - x.e))

\* if (qualityScore !== undefined) credits *= 0.5 + (qualityScore / 100) * 1.0
timesQuality(credits, qualityScore) ==
  IF qualityScore # NoScore
  THEN doubleMul(credits,
                 doubleAdd(doubleOfRatio(1, 2),
                           doubleMul(doubleOfRatio(qualityScore, 100), doubleOfRatio(1, 1))))
  ELSE credits

\* baseCredits * cropMultiplier * areaMultiplier [* qualityMultiplier] as
\* the code evaluates it, for the crop multiplier in hundredths and
\* parseFloat of the area in tenths
doubleCredits(baseCredits, cropHundredths, areaTenths, qualityScore) ==
  LET cropMultiplier == doubleOfRatio(cropHundredths, 100)
      areaValue == doubleOfRatio(areaTenths, 10)
      areaMultiplier ==
        doubleMin(doubleAdd(doubleOfRatio(1, 1), doubleMul(areaValue, doubleOfRatio(1, 10))),
                  doubleOfRatio(2, 1))
  IN timesQuality(doubleMul(doubleMul(doubleOfRatio(baseCredits, 1), cropMultiplier),
                            areaMultiplier),
                  qualityScore)

\* the minimum of 5 for a good or absent quality score, and never below 0
creditFloor(credits, qualityScore) ==
  IF credits > 0 /\ (qualityScore = NoScore \/ qualityScore >= 50)
  THEN Max(credits, 5)
  ELSE Max(credits, 0)

otherTypeRejected(input, qualityScore, requireFarmingContent) ==
  /\ input.activity_type = "other"
  /\ \/ qualityScore # NoScore /\ qualityScore < 50
     \/ requireFarmingContent
          /\ (input.description = <<>> \/ Len(trim(input.description)) < 15)

calculateCredits(input, qualityScore, requireFarmingContent) ==
  LET baseCredits == BASE_CREDITS[input.activity_type]
      cropMultiplier == cropMultiplierOf(input.crop_name)
      areaMultiplier == getAreaMultiplier(input.area)
      \* the exact product base * crop/100 * area/100 [* (50 + q)/100] as the
      \* fraction n / d
      n == baseCredits * cropMultiplier * areaMultiplier
             * (IF qualityScore # NoScore THEN 50 + qualityScore ELSE 1)
      d == IF qualityScore # NoScore THEN 1000000 ELSE 10000
      \* Math.round(credits).  The double product lies within 10^-12 of the
      \* exact one, which is a multiple of 1/d: the two round alike unless the
      \* exact product is a tie k + 1/2, and there the double decides
      credits == IF (2 * n) % (2 * d) = d
                 THEN mathRound(doubleCredits(baseCredits, cropMultiplier,
                                              extractAreaValue(input.area), qualityScore))
                 ELSE roundDiv(n, d)
  IN IF qualityScore # NoScore /\ qualityScore < 30 THEN 0
     ELSE IF otherTypeRejected(input, qualityScore, requireFarmingContent) THEN 0
     ELSE creditFloor(credits, qualityScore)

(***************************************************************************)
(* services/verification.ts                                                *)
(***************************************************************************)
\* null / undefined / absent of a number-valued field
NoNum == 1000

truthyNumber(n) == n # NoNum /\ n # 0

\* Haversine distance in meters on the model's whole-degree coordinates:
\* 0 for the same point (and for two points on one pole), otherwise at least
\* the length of one degree of longitude at latitude 89, far above 10 m
FarMeters == 1940

calculateDistance(lat1, lon1, lat2, lon2) ==
  IF lat1 = lat2 /\ (lon1 = lon2 \/ lat1 \in {90, -90}) THEN 0 ELSE FarMeters

verifyLocation(location, recentActivities) ==
  LET lowAccuracy == truthyNumber(location.accuracy) /\ location.accuracy > 50
      sameLocation ==
        \E i \in 1..Len(recentActivities) :
          LET activity == recentActivities[i]
          IN /\ truthyNumber(activity.latitude)
             /\ truthyNumber(activity.longitude)
             /\ calculateDistance(location.latitude, location.longitude,
                                  activity.latitude, activity.longitude) < 10
  IN IF ~truthyNumber(location.latitude) \/ ~truthyNumber(location.longitude)
       THEN [valid |-> FALSE, score |-> 100, reasons |-> <<"location_not_provided">>]
     ELSE IF location.latitude < -90 \/ location.latitude > 90
       THEN [valid |-> FALSE, score |-> 100, reasons |-> <<"invalid_latitude">>]
     ELSE IF location.longitude < -180 \/ location.longitude > 180
       THEN [valid |-> FALSE, score |-> 100, reasons |-> <<"invalid_longitude">>]
     ELSE [valid   |-> TRUE,
           score   |-> (IF lowAccuracy THEN 20 ELSE 0) + (IF sameLocation THEN 15 ELSE 0),
           reasons |-> (IF lowAccuracy THEN <<"low_accuracy">> ELSE <<>>)
                         \o (IF sameLocation THEN <<"same_location">> ELSE <<>>)]

\* the windows of the history queries, in minutes
FIVE_MINUTES == 5

TEN_MINUTES == 10

ONE_HOUR == 60

ONE_DAY == 24 * 60

\* .gte('created_at', ...) without .eq('user_id', userId)
rowsSinceAnyUser(table, userId, since) ==
  SelectSeq(table, LAMBDA a : a.created_at >= since)

\* rows of the table of one user created at or after a time
rowsSince(table, userId, since) ==
  SelectSeq(table, LAMBDA a : a.user_id = userId /\ a.created_at >= since)

\* if (rapidCount >= 5)
\* the rapid-fire check one row late
rapidFireAbove(rapidCount) == rapidCount > 5

\* the rapid-fire check on exactly five rows
rapidFireExactly(rapidCount) == rapidCount = 5

rapidFire(rapidCount) == rapidCount >= 5

verifyTimestampAndFrequency(userId, activityType, table, clock) ==
  LET recentSameType ==
        SelectSeq(rowsSince(table, userId, clock - ONE_HOUR),
                  LAMBDA a : a.activity_type = activityType)
      dailyCount == Len(rowsSince(table, userId, clock - ONE_DAY))
      rapidCount == Len(rowsSince(table, userId, clock - TEN_MINUTES))
      sameType == Len(recentSameType) > 0
      score == (IF sameType THEN 30 ELSE 0)
                 + (IF dailyCount >= 10 THEN 25 ELSE IF dailyCount >= 8 THEN 10 ELSE 0)
                 + (IF rapidFire(rapidCount) THEN 40 ELSE 0)
  IN [valid   |-> score < 50,
      score   |-> score,
      reasons |-> (IF sameType THEN <<"same_type_within_hour">> ELSE <<>>)
                    \o (IF dailyCount >= 10 THEN <<"too_many_today">>
                        ELSE IF dailyCount >= 8 THEN <<"high_activity_today">> ELSE <<>>)
                    \o (IF rapidFire(rapidCount) THEN <<"rapid_fire">> ELSE <<>>)]

\* .order('created_at', desc).limit(n): the table is in insertion order, which
\* is the order of created_at
lastRows(rows, n) ==
  IF Len(rows) <= n THEN rows ELSE SubSeq(rows, Len(rows) - n + 1, Len(rows))

verifyActivityPattern(userId, activityType, cropName, table) ==
  LET userActivities == lastRows(SelectSeq(table, LAMBDA a : a.user_id = userId), 50)
      typeCount == Len(SelectSeq(userActivities, LAMBDA a : a.activity_type = activityType))
      totalCount == Len(userActivities)
      unusualType == totalCount > 10 /\ typeCount * 100 < 5 * totalCount
      cropCount == Len(SelectSeq(userActivities, LAMBDA a : a.crop_name = cropName))
      newCrop == cropName # NoVal /\ cropName # <<>> /\ cropCount = 0 /\ totalCount > 5
      score == (IF unusualType THEN 15 ELSE 0) + (IF newCrop THEN 10 ELSE 0)
  IN IF totalCount = 0 THEN [valid |-> TRUE, score |-> 0, reasons |-> <<>>]
     ELSE [valid   |-> score < 30,
           score   |-> score,
           reasons |-> (IF unusualType THEN <<"unusual_type">> ELSE <<>>)
                         \o (IF newCrop THEN <<"new_crop">> ELSE <<>>)]

\* the decision flagging on the number of reasons alone
verifyActivityResultByReasons(totalScore, allReasons) ==
  [passed     |-> totalScore < 50,
   fraudScore |-> Min(totalScore, 100),
   reasons    |-> allReasons,
   flagged    |-> Len(allReasons) >= 3]

\* the decision of verifyActivity on the summed sub-scores
verifyActivityResult(totalScore, allReasons) ==
  [passed     |-> totalScore < 50,
   fraudScore |-> Min(totalScore, 100),
   reasons    |-> allReasons,
   flagged    |-> totalScore >= 30 \/ Len(allReasons) >= 3]

(***************************************************************************)
(* Bounds and inputs                                                       *)
(***************************************************************************)
\* rows the activities table can hold
MaxActivities == 1

\* last minute the clock reaches
MaxNow == 31

\* minutes the clock advances in one step: out of the 5 and 10 minute
\* windows after one step, out of the 1 hour window after two
TickMinutes == ONE_HOUR \div 2 + 1

Reqs == {"r1"}

Users == {"u1"}

\* req.body.description and the size in bytes of the uploaded audio file
\* (NoNum for a request without file)
Submissions ==
  {[description |-> NoVal,      size |-> NoNum],
   [description |-> TxtBlank,   size |-> NoNum],
   [description |-> TxtFiller,  size |-> NoNum],
   [description |-> TxtCompost, size |-> NoNum],
   [description |-> NoVal,      size |-> 4000],
   [description |-> NoVal,      size |-> 8000],
   [description |-> TxtCompost, size |-> 80000]}

SpeechAnswers ==
  {[kind |-> "ok", transcript |-> TxtBlank],
   [kind |-> "ok", transcript |-> TxtWatered],
   [kind |-> "http_error", transcript |-> <<>>],
   [kind |-> "network_error", transcript |-> <<>>]}

\* a value of the wrong JSON type (a number where a string is expected)
NotAString == <<"<number>">>

LlmAnswers ==
  {[kind |-> "call_error", activity_type |-> "other", crop_name |-> NoVal,
    area |-> NoVal, description |-> <<>>],
   [kind |-> "no_json", activity_type |-> "other", crop_name |-> NoVal,
    area |-> NoVal, description |-> <<>>],
   [kind |-> "bad_json", activity_type |-> "other", crop_name |-> NoVal,
    area |-> NoVal, description |-> <<>>],
   [kind |-> "json", activity_type |-> "organic_input", crop_name |-> <<"r","i","c","e">>,
    area |-> <<"1","2"," ","a","c","r","e","s">>, description |-> <<"A","p","p","l","i","e","d"," ","c","o","m","p","o","s","t"," ","t","o"," ","r","i","c","e"," ","f","i","e","l","d">>],
   [kind |-> "json", activity_type |-> "water_conservation", crop_name |-> NoVal,
    area |-> NotAString, description |-> <<>>],
   [kind |-> "json", activity_type |-> "irrigation", crop_name |-> NoVal,
    area |-> NoVal, description |-> <<"W","a","t","e","r","e","d"," ","p","l","a","n","t","s">>],
   [kind |-> "json", activity_type |-> "soil_health", crop_name |-> NoVal,
    area |-> NoVal, description |-> <<"T","h","i","s"," ","i","s"," ","n","o","t"," ","a"," ","f","a","r","m","i","n","g"," ","a","c","t","i","v","i","t","y">>]}

\* req.body.crop and req.body.area
ManualInputs ==
  {[crop |-> NoVal, area |-> NoVal],
   [crop |-> <<"C","o","t","t","o","n">>, area |-> <<"2",".","5"," ","h","a">>]}

\* req.body.latitude, longitude, location_accuracy (whole degrees, meters)
Locations ==
  {[latitude |-> NoNum, longitude |-> NoNum, accuracy |-> NoNum],
   [latitude |-> 0,     longitude |-> 77,    accuracy |-> NoNum],
   [latitude |-> 12,    longitude |-> 77,    accuracy |-> NoNum],
   [latitude |-> 12,    longitude |-> 77,    accuracy |-> 60]}

(***************************************************************************)
(* State                                                                   *)
(***************************************************************************)
VARIABLES
  activities,   \* the activities table, in insertion order
  now,          \* the clock, in minutes
  req,          \* per request slot: the handler's position and locals
  call,         \* the function call under check, in the specifications of
                \* single functions; not used by the route
  redemptions   \* the redemptions table, in insertion order

vars == <<activities, now, req, call, redemptions>>

NoResponse ==
  [status |-> 0, credits_earned |-> 0, verification_status |-> "none", fraud_score |-> 0]

NoData ==
  [activity_type |-> "other", crop_name |-> NoVal, area |-> NoVal, description |-> <<>>]

NoCheck == [valid |-> TRUE, score |-> 0, reasons |-> <<>>]

NoVerification ==
  [passed |-> FALSE, fraudScore |-> 0, reasons |-> <<>>, flagged |-> FALSE]

\* calls, inserted, rejectedAt, transcribeFailed and extractionFailed record
\* what the run did; the handler does not read them
IdleReq ==
  [pc |-> "idle", userId |-> "", description |-> NoVal,
   hasAudio |-> FALSE, fileSize |-> NoNum, fileExists |-> FALSE, unlinks |-> 0,
   crop |-> NoVal, area |-> NoVal,
   latitude |-> NoNum, longitude |-> NoNum, location_accuracy |-> NoNum,
   hasAnalysis |-> FALSE, audioScore |-> 0, audioReasons |-> <<>>,
   rawText |-> <<>>, transcription |-> NoVal, transcribeFailed |-> FALSE,
   qualityScore |-> NoScore, isValidContent |-> FALSE,
   extractedData |-> NoData, extractionFailed |-> FALSE,
   hasLocation |-> FALSE, locationCheck |-> NoCheck,
   totalScore |-> 0, allReasons |-> <<>>,
   verificationResult |-> NoVerification, creditsEarned |-> 0,
   response |-> NoResponse, calls |-> {}, inserted |-> 0, rejectedAt |-> "none"]

\* no function call under check
NoCall == [fn |-> "none"]

Init ==
  /\ activities = <<>>
  /\ now = 0
  /\ req = [r \in Reqs |-> IdleReq]
  /\ redemptions = <<>>
  /\ call = NoCall

\* !s for a string-valued body field
falsy(s) == s = NoVal \/ s = <<>>

(***************************************************************************)
(* routes/activities.ts: POST /log-activity                                *)
(***************************************************************************)
\* if (audioFile && fs.existsSync(audioFile.path)) fs.unlinkSync(audioFile.path)
\* the clean-up without the fs.existsSync guard
unlinkUnguarded(st) ==
  IF st.hasAudio
  THEN [st EXCEPT !.fileExists = FALSE, !.unlinks = @ + 1]
  ELSE st

unlinkIfExists(st) ==
  IF st.hasAudio /\ st.fileExists
  THEN [st EXCEPT !.fileExists = FALSE, !.unlinks = @ + 1]
  ELSE st

\* the outer catch: clean up the file, next(error)
catchAll(st, status, gate) ==
  [unlinkIfExists(st) EXCEPT
     !.pc = "done",
     !.response = [NoResponse EXCEPT !.status = status],
     !.rejectedAt = gate]

\* throw new AppError(..., 400) after the clean-up in front of it
rejectWithCleanup(st, gate) == catchAll(unlinkIfExists(st), 400, gate)

\* Step 1: the request arrives; audio or description is required
ReceiveOf(r, users, submissions) ==
  /\ req[r].pc = "idle"
  /\ \E userId \in users, sub \in submissions :
       LET description == sub.description
           size == sub.size
           audioFile == size # NoNum
           st == [IdleReq EXCEPT
                    !.userId = userId, !.description = description,
                    !.hasAudio = audioFile, !.fileSize = size, !.fileExists = audioFile,
                    !.rawText = IF falsy(description) THEN <<>> ELSE description]
       IN req' = [req EXCEPT ![r] =
            IF ~audioFile /\ (falsy(description) \/ trim(description) = <<>>)
            THEN catchAll(st, 400, "input")
            ELSE [st EXCEPT !.pc = IF audioFile THEN "analyze" ELSE "content"]]
  /\ UNCHANGED <<activities, now, call, redemptions>>

ReceiveFrom(r, submissions) == ReceiveOf(r, Users, submissions)

Receive(r) == ReceiveFrom(r, Submissions)

\* if (audioAnalysisResult.score >= 60) throw
\* the pre-check at the warning threshold
audioPrecheckAtWarning(score) == score >= 30

\* the pre-check rejecting only above its threshold
audioPrecheckAbove(score) == score > 60

audioPrecheckFails(score) == score >= 60

\* Step 2, first half: analyzeAudio and the pre-check on its score
AnalyzeAudio(r) ==
  /\ req[r].pc = "analyze"
  /\ LET st == [req[r] EXCEPT !.calls = @ \cup {"analyzeAudio"}]
         audioAnalysisResult == analyzeAudio(st.fileSize)
         st1 == [st EXCEPT !.hasAnalysis = TRUE,
                           !.audioScore = audioAnalysisResult.score,
                           !.audioReasons = audioAnalysisResult.reasons]
     IN req' = [req EXCEPT ![r] =
          IF audioPrecheckFails(audioAnalysisResult.score)
          THEN rejectWithCleanup(st1, "audio")
          ELSE [st1 EXCEPT !.pc = "transcribe"]]
  /\ UNCHANGED <<activities, now, call, redemptions>>

\* Step 2, second half: transcribeAudio and the catch of the audio block
TranscribeFrom(r, answers) ==
  /\ req[r].pc = "transcribe"
  /\ \E answer \in answers :
       LET st == [req[r] EXCEPT !.calls = @ \cup {"transcribeAudio"}]
           res == transcribeAudio(st.fileExists, answer)
           \* transcribeAudio's own catch removes the file
           st1 == IF res.unlinked THEN unlinkIfExists(st) ELSE st
       IN req' = [req EXCEPT ![r] =
            IF res.threw = "none"
            THEN IF res.text = <<>> \/ trim(res.text) = <<>>
                 THEN rejectWithCleanup(st1, "transcription")
                 ELSE [st1 EXCEPT !.pc = "content", !.rawText = res.text,
                                  !.transcription = res.text]
            ELSE LET st2 == [unlinkIfExists(st1) EXCEPT !.transcribeFailed = TRUE]
                 IN IF res.threw = "AppError"
                    THEN catchAll(st2, 500, "transcription")
                    ELSE IF falsy(st2.description)
                         THEN catchAll(st2, 400, "transcription")
                         ELSE [st2 EXCEPT !.pc = "content"]]
  /\ UNCHANGED <<activities, now, call, redemptions>>

Transcribe(r) == TranscribeFrom(r, SpeechAnswers)

\* if (!isValidContent) throw
\* invalid content let through
contentNeverRejected(isValidContent) == FALSE

contentRejected(isValidContent) == ~isValidContent

\* the text check in front of Step 3, and Step 3: content quality
ValidateContent(r) ==
  /\ req[r].pc = "content"
  /\ LET st == req[r]
         st1 == [st EXCEPT
                   !.calls = @ \cup {"calculateContentQualityScore", "isValidFarmingContent"},
                   !.qualityScore = calculateContentQualityScore(st.rawText),
                   !.isValidContent = isValidFarmingContent(st.rawText)]
     IN req' = [req EXCEPT ![r] =
          IF st.rawText = <<>> \/ trim(st.rawText) = <<>>
          THEN catchAll(st, 400, "input")
          ELSE IF contentRejected(st1.isValidContent)
               THEN rejectWithCleanup(st1, "content")
               ELSE [st1 EXCEPT !.pc = "extract"]]
  /\ UNCHANGED <<activities, now, call, redemptions>>

\* calculateCredits calls area.match and crop_name.toLowerCase: a value that
\* is not a string raises a TypeError
creditsTypeError(data) == data.area = NotAString \/ data.crop_name = NotAString

\* Step 4 and Step 5: extraction, manual overrides, extraction validity
ExtractFrom(r, answers, manuals) ==
  /\ req[r].pc = "extract"
  /\ \E answer \in answers, manual \in manuals :
       LET crop == manual.crop
           area == manual.area
           st == [req[r] EXCEPT !.calls = @ \cup {"extractActivityData"},
                                !.crop = crop, !.area = area,
                                !.extractionFailed = answer.kind # "json"]
           res == extractActivityData(st.rawText, answer)
           extractedData ==
             [res.data EXCEPT
                !.crop_name = IF ~falsy(crop) THEN crop ELSE @,
                !.area = IF ~falsy(area) THEN area ELSE @,
                !.description = IF ~falsy(st.description) /\ ~st.hasAudio
                                THEN st.description ELSE @]
           st1 == [st EXCEPT !.extractedData = extractedData]
       IN req' = [req EXCEPT ![r] =
            IF res.threw
            THEN rejectWithCleanup(st, "extraction_error")
            ELSE IF ~isValidFarmingExtraction(extractedData)
                 THEN rejectWithCleanup(st1, "extraction")
                 ELSE [st1 EXCEPT !.pc = "verifyLocation"]]
  /\ UNCHANGED <<activities, now, call, redemptions>>

Extract(r) == ExtractFrom(r, LlmAnswers, ManualInputs)

\* the sequences of n rows a query with .limit(n) and no order may return
RECURSIVE rowsAt(_, _, _)
rowsAt(rows, keep, i) ==
  IF i > Len(rows) THEN <<>>
  ELSE (IF i \in keep THEN <<rows[i]>> ELSE <<>>) \o rowsAt(rows, keep, i + 1)

limitRows(rows, n) ==
  IF Len(rows) <= n THEN {rows}
  ELSE {rowsAt(rows, keep, 1) :
          keep \in {k \in SUBSET (1..Len(rows)) : Cardinality(k) = n}}

\* Step 6, verifyActivity: the location check
VerifyLocationFrom(r, locations) ==
  /\ req[r].pc = "verifyLocation"
  /\ \E loc \in locations,
        recentActivities \in limitRows(rowsSince(activities, req[r].userId, now - FIVE_MINUTES), 10) :
       LET st == req[r]
           latitude == loc.latitude
           longitude == loc.longitude
           accuracy == loc.accuracy
           \* the body fields are strings: present means truthy
           hasLocation == latitude # NoNum /\ longitude # NoNum
           locationData == [latitude |-> latitude, longitude |-> longitude,
                            accuracy |-> accuracy]
           locationCheck ==
             IF hasLocation THEN verifyLocation(locationData, recentActivities)
             ELSE [valid |-> TRUE, score |-> 10, reasons |-> <<"no_location">>]
       IN req' = [req EXCEPT ![r] =
            [st EXCEPT !.pc = "verifyFrequency",
                       !.calls = @ \cup {"verifyActivity"},
                       !.latitude = latitude, !.longitude = longitude,
                       !.location_accuracy = accuracy,
                       !.hasLocation = hasLocation,
                       !.locationCheck = locationCheck,
                       !.totalScore = locationCheck.score,
                       !.allReasons = locationCheck.reasons]]
  /\ UNCHANGED <<activities, now, call, redemptions>>

VerifyLocation(r) == VerifyLocationFrom(r, Locations)

\* Step 6, verifyActivity: the timestamp and frequency check
VerifyFrequency(r) ==
  /\ req[r].pc = "verifyFrequency"
  /\ LET st == req[r]
         timeCheck == verifyTimestampAndFrequency(st.userId, st.extractedData.activity_type,
                                                  activities, now)
     IN req' = [req EXCEPT ![r] =
          [st EXCEPT !.pc = "verifyPattern",
                     !.totalScore = @ + timeCheck.score,
                     !.allReasons = @ \o timeCheck.reasons]]
  /\ UNCHANGED <<activities, now, call, redemptions>>

\* the fraud gate of the route
\* the gate with a strict comparison
fraudGateStrict(fraudScore) == fraudScore > 70

fraudGate(fraudScore) == fraudScore >= 70

\* if (creditsEarned === 0) throw
\* zero credits let through
creditsNeverRejected(creditsEarned) == FALSE

creditsRejected(creditsEarned) == creditsEarned = 0

\* verification_status of the stored row and of the answer
verificationStatus(verificationResult) ==
  IF verificationResult.flagged THEN "flagged"
  ELSE IF verificationResult.passed THEN "verified" ELSE "pending"

\* Step 7: calculateCredits(extractedData, {qualityScore, requireFarmingContent: true})
\* credits cut by a tenth of the fraud score
creditsLessFraud(st) ==
  Max(calculateCredits(st.extractedData, st.qualityScore, TRUE)
        - st.verificationResult.fraudScore \div 10, 0)

creditsOfRun(st) == calculateCredits(st.extractedData, st.qualityScore, TRUE)

\* Step 6, verifyActivity: the pattern check and the decision; then the audio
\* score is added, the fraud gate is applied, and Step 7 calculates credits
VerifyPattern(r) ==
  /\ req[r].pc = "verifyPattern"
  /\ LET st == req[r]
         patternCheck == verifyActivityPattern(st.userId, st.extractedData.activity_type,
                                               st.extractedData.crop_name, activities)
         result == verifyActivityResult(st.totalScore + patternCheck.score,
                                        st.allReasons \o patternCheck.reasons)
         verificationResult ==
           IF st.hasAnalysis
           THEN [result EXCEPT !.fraudScore = @ + st.audioScore,
                               !.reasons = @ \o st.audioReasons]
           ELSE result
         st1 == [st EXCEPT !.totalScore = @ + patternCheck.score,
                           !.allReasons = @ \o patternCheck.reasons,
                           !.verificationResult = verificationResult]
         creditsEarned == creditsOfRun(st1)
         st2 == [st1 EXCEPT !.calls = @ \cup {"calculateCredits"},
                            !.creditsEarned = creditsEarned]
     IN req' = [req EXCEPT ![r] =
          IF fraudGate(verificationResult.fraudScore)
          THEN rejectWithCleanup(st1, "fraud")
          ELSE IF creditsTypeError(st.extractedData)
               THEN catchAll([st1 EXCEPT !.calls = @ \cup {"calculateCredits"}],
                             500, "unexpected")
               ELSE IF creditsRejected(creditsEarned)
                    THEN rejectWithCleanup(st2, "credits")
                    ELSE [st2 EXCEPT !.pc = "insert"]]
  /\ UNCHANGED <<activities, now, call, redemptions>>

\* locationData?.latitude || null
orNull(hasLocation, n) == IF hasLocation /\ truthyNumber(n) THEN n ELSE NoNum

\* a row whose status is decided again on the table as it is at the insert
activityRowRechecked(st, clock) ==
  LET timeCheck == verifyTimestampAndFrequency(st.userId, st.extractedData.activity_type,
                                               activities, clock)
      late == timeCheck.score >= 30
  IN [user_id             |-> st.userId,
      activity_type       |-> st.extractedData.activity_type,
      crop_name           |-> st.extractedData.crop_name,
      latitude            |-> IF st.hasLocation /\ truthyNumber(st.latitude)
                              THEN st.latitude ELSE NoNum,
      longitude           |-> IF st.hasLocation /\ truthyNumber(st.longitude)
                              THEN st.longitude ELSE NoNum,
      created_at          |-> clock,
      verification_status |-> IF late \/ st.verificationResult.flagged THEN "flagged"
                              ELSE IF st.verificationResult.passed THEN "verified"
                              ELSE "pending",
      fraud_score         |-> st.verificationResult.fraudScore,
      flagged_for_review  |-> late \/ st.verificationResult.flagged,
      credits_earned      |-> st.creditsEarned]

activityRow(st, clock) ==
  [user_id             |-> st.userId,
   activity_type       |-> st.extractedData.activity_type,
   crop_name           |-> st.extractedData.crop_name,
   latitude            |-> orNull(st.hasLocation, st.latitude),
   longitude           |-> orNull(st.hasLocation, st.longitude),
   created_at          |-> clock,
   verification_status |-> verificationStatus(st.verificationResult),
   fraud_score         |-> st.verificationResult.fraudScore,
   flagged_for_review  |-> st.verificationResult.flagged,
   credits_earned      |-> st.creditsEarned]

\* an insert that stores the row and then reports the insert error
InsertThenFail(r) ==
  /\ req[r].pc = "insert"
  /\ Len(activities) < MaxActivities
  /\ activities' = Append(activities, activityRow(req[r], now))
  /\ req' = [req EXCEPT ![r] =
       catchAll(unlinkIfExists([req[r] EXCEPT !.calls = @ \cup {"insert"}]), 500, "insert")]
  /\ UNCHANGED <<now, call, redemptions>>

\* Step 8: the insert, the clean-up after it and the answer.  A full table
\* of the model answers with an insert error, as the database may at any time
InsertInto(r, capacity) ==
  /\ req[r].pc = "insert"
  /\ \E insertError \in BOOLEAN :
       LET st == req[r]
       IN IF insertError \/ Len(activities) >= capacity
          THEN /\ req' = [req EXCEPT ![r] =
                    catchAll(unlinkIfExists([st EXCEPT !.calls = @ \cup {"insert"}]),
                             500, "insert")]
               /\ UNCHANGED <<activities, redemptions>>
          ELSE /\ activities' = Append(activities, activityRow(st, now))
               /\ req' = [req EXCEPT ![r] =
                    [unlinkIfExists(st) EXCEPT
                       !.pc = "done",
                       !.calls = @ \cup {"insert"},
                       !.inserted = @ + 1,
                       !.response =
                         [status              |-> 201,
                          credits_earned      |-> st.creditsEarned,
                          verification_status |-> verificationStatus(st.verificationResult),
                          fraud_score         |-> st.verificationResult.fraudScore]]]
  /\ UNCHANGED <<now, call, redemptions>>

Insert(r) == InsertInto(r, MaxActivities)

\* the answer has been sent: the slot is free for the next request
Finish(r) ==
  /\ req[r].pc = "done"
  /\ req' = [req EXCEPT ![r] = IdleReq]
  /\ UNCHANGED <<activities, now, call, redemptions>>

\* time passes
TickBy(minutes, last) ==
  /\ now + minutes <= last
  /\ now' = now + minutes
  /\ UNCHANGED <<activities, req, call, redemptions>>

Tick == TickBy(TickMinutes, MaxNow)

Next ==
  \/ \E r \in Reqs : Receive(r)
  \/ \E r \in Reqs : AnalyzeAudio(r)
  \/ \E r \in Reqs : Transcribe(r)
  \/ \E r \in Reqs : ValidateContent(r)
  \/ \E r \in Reqs : Extract(r)
  \/ \E r \in Reqs : VerifyLocation(r)
  \/ \E r \in Reqs : VerifyFrequency(r)
  \/ \E r \in Reqs : VerifyPattern(r)
  \/ \E r \in Reqs : Insert(r)
  \/ \E r \in Reqs : Finish(r)
  \/ Tick

Spec == Init /\ [][Next]_vars

(***************************************************************************)
(* Two requests of one user in flight at the same time, each slot handling *)
(* one request                                                             *)
(***************************************************************************)
\* rows the activities table can hold
PairRows == 2

PairReqs == {"r1", "r2"}

\* voice submissions: a thin recording (audio score 40) and a full one
PairSubmissions == {s \in Submissions : s.size \in {8000, 80000}}

PairSpeech == {a \in SpeechAnswers : a.kind = "ok" /\ a.transcript = TxtWatered}

PairAnswers == {a \in LlmAnswers : a.kind = "json" /\ a.activity_type = "organic_input"}

PairLocations == {l \in Locations : l.latitude # 0}

PairInit ==
  /\ activities = <<>>
  /\ now = 0
  /\ req = [r \in PairReqs |-> IdleReq]
  /\ redemptions = <<>>
  /\ call = NoCall

PairNext ==
  \/ \E r \in PairReqs : ReceiveFrom(r, PairSubmissions)
  \/ \E r \in PairReqs : AnalyzeAudio(r)
  \/ \E r \in PairReqs : TranscribeFrom(r, PairSpeech)
  \/ \E r \in PairReqs : ValidateContent(r)
  \/ \E r \in PairReqs : ExtractFrom(r, PairAnswers, ManualInputs)
  \/ \E r \in PairReqs : VerifyLocationFrom(r, PairLocations)
  \/ \E r \in PairReqs : VerifyFrequency(r)
  \/ \E r \in PairReqs : VerifyPattern(r)
  \/ \E r \in PairReqs : InsertInto(r, PairRows)

PairSpec == PairInit /\ [][PairNext]_vars

(***************************************************************************)
(* One user submitting text after text: the history checks                 *)
(***************************************************************************)
\* rows the activities table can hold
MaxRows == 11

\* last minute the clock reaches
MaxMinute == 22

\* minutes the clock advances in one step: out of the 5 and 10 minute
\* windows, inside the 1 hour and 24 hour windows
HistoryTick == TEN_MINUTES + 1

HistorySubmissions == {s \in Submissions : s.description = TxtCompost /\ s.size = NoNum}

\* the extraction always answers with the same category
HistoryAnswers == {a \in LlmAnswers : a.kind = "json" /\ a.activity_type = "organic_input"}

HistoryManuals == {m \in ManualInputs : m.crop = NoVal}

\* a location without accuracy, and two with an accuracy of 30 m, one of
\* them on the equator
HistoryLocations ==
  {l \in Locations : l.latitude = 12 /\ l.accuracy = NoNum}
    \cup {[latitude |-> lat, longitude |-> 77, accuracy |-> 30] : lat \in {0, 12}}

HistoryNextFrom(answers, locations, capacity, last) ==
  \/ \E r \in Reqs : ReceiveFrom(r, HistorySubmissions)
  \/ \E r \in Reqs : ValidateContent(r)
  \/ \E r \in Reqs : ExtractFrom(r, answers, HistoryManuals)
  \/ \E r \in Reqs : VerifyLocationFrom(r, locations)
  \/ \E r \in Reqs : VerifyFrequency(r)
  \/ \E r \in Reqs : VerifyPattern(r)
  \/ \E r \in Reqs : InsertInto(r, capacity)
  \/ \E r \in Reqs : Finish(r)
  \/ TickBy(HistoryTick, last)

HistoryNext == HistoryNextFrom(HistoryAnswers, HistoryLocations, MaxRows, MaxMinute)

HistorySpec == Init /\ [][HistoryNext]_vars

(***************************************************************************)
(* One user submitting text after text in quick succession, with two       *)
(* categories                                                              *)
(***************************************************************************)
\* rows the activities table can hold
RapidRows == 6

\* last minute the clock reaches
RapidMinute == 11

RapidAnswers ==
  {a \in LlmAnswers : a.kind = "json" /\ a.activity_type \in {"organic_input", "irrigation"}}

RapidNext ==
  HistoryNextFrom(RapidAnswers, {l \in HistoryLocations : l.accuracy = NoNum},
                  RapidRows, RapidMinute)

RapidSpec == Init /\ [][RapidNext]_vars

(***************************************************************************)
(* Two requests in flight at the same time, of one user or of two          *)
(***************************************************************************)
CrossUsers == {"u1", "u2"}

CrossNext ==
  \/ \E r \in PairReqs : ReceiveOf(r, CrossUsers, HistorySubmissions)
  \/ \E r \in PairReqs : ValidateContent(r)
  \/ \E r \in PairReqs : ExtractFrom(r, RapidAnswers, HistoryManuals)
  \/ \E r \in PairReqs : VerifyLocationFrom(r, HistoryLocations)
  \/ \E r \in PairReqs : VerifyFrequency(r)
  \/ \E r \in PairReqs : VerifyPattern(r)
  \/ \E r \in PairReqs : InsertInto(r, PairRows)

CrossSpec == PairInit /\ [][CrossNext]_vars

(***************************************************************************)
(* One user submitting text after text with every category, after five     *)
(* rows of one category in the same minute                                 *)
(***************************************************************************)
\* rows the activities table can hold
WindowRows == 11

\* the extraction answers with any category and nothing else
WindowAnswers ==
  {[kind |-> "json", activity_type |-> t, crop_name |-> NoVal, area |-> NoVal,
    description |-> <<>>] : t \in validTypes}

\* the table after five submissions of HistorySpec at minute 0: the first
\* row is verified, the others carry the same-type 30 and the same-location 15
WindowStart ==
  [i \in 1..5 |->
     [user_id             |-> "u1",
      activity_type       |-> "organic_input",
      crop_name           |-> <<"r","i","c","e">>,
      latitude            |-> 12,
      longitude           |-> 77,
      created_at          |-> 0,
      verification_status |-> IF i = 1 THEN "verified" ELSE "flagged",
      fraud_score         |-> IF i = 1 THEN 0 ELSE 45,
      flagged_for_review  |-> i # 1,
      credits_earned      |-> 138]]

WindowInit ==
  /\ activities = WindowStart
  /\ now = 0
  /\ req = [r \in Reqs |-> IdleReq]
  /\ redemptions = <<>>
  /\ call = NoCall

\* the clock advances once, out of the 5 minute window and inside the
\* 10 minute window
WindowNext ==
  \/ \E r \in Reqs : ReceiveFrom(r, HistorySubmissions)
  \/ \E r \in Reqs : ValidateContent(r)
  \/ \E r \in Reqs : ExtractFrom(r, WindowAnswers, HistoryManuals)
  \/ \E r \in Reqs : VerifyLocationFrom(r, {l \in HistoryLocations : l.accuracy = NoNum})
  \/ \E r \in Reqs : VerifyFrequency(r)
  \/ \E r \in Reqs : VerifyPattern(r)
  \/ \E r \in Reqs : InsertInto(r, WindowRows)
  \/ \E r \in Reqs : Finish(r)
  \/ TickBy(FIVE_MINUTES + 1, FIVE_MINUTES + 1)

WindowSpec == WindowInit /\ [][WindowNext]_vars

(***************************************************************************)
(* calculateContentQualityScore and isValidFarmingContent on their own     *)
(***************************************************************************)
\* words a text has at most
MaxWords == 3

\* two farming keywords, an activity indicator, filler words (one of them
\* capitalised) and a word of none of the lists
ContentWords ==
  {<<"r","i","c","e">>, <<"i","r","r","i","g","a","t","i","o","n">>,
   <<"p","l","a","n","t","e","d">>, <<"h","e","l","l","o">>,
   <<"T","e","s","t","i","n","g">>, <<"o","k","a","y">>, <<"t","h","e">>}

RECURSIVE joinWords(_, _)
joinWords(words, separator) ==
  IF words = <<>> THEN <<>>
  ELSE IF Len(words) = 1 THEN words[1]
  ELSE words[1] \o separator \o joinWords(Tail(words), separator)

\* the words joined by one blank or by a run of blanks, bare or padded
ContentTexts ==
  {pad \o joinWords(words, separator) \o pad :
     words \in UNION {[1..n -> ContentWords] : n \in 0..MaxWords},
     separator \in {<<" ">>, <<" "," "," "," ">>},
     pad \in {<<>>, <<" "," ">>}}

ContentInit ==
  /\ activities = <<>>
  /\ now = 0
  /\ req = [r \in Reqs |-> IdleReq]
  /\ redemptions = <<>>
  /\ \E fn \in {"calculateContentQualityScore", "isValidFarmingContent"},
        text \in ContentTexts :
       call = [fn |-> fn, text |-> text, returned |-> FALSE,
               score |-> NoScore, valid |-> FALSE]

CallCalculateContentQualityScore ==
  /\ call.fn = "calculateContentQualityScore" /\ ~call.returned
  /\ call' = [call EXCEPT !.returned = TRUE,
                          !.score = calculateContentQualityScore(call.text)]
  /\ UNCHANGED <<activities, now, req, redemptions>>

CallIsValidFarmingContent ==
  /\ call.fn = "isValidFarmingContent" /\ ~call.returned
  /\ call' = [call EXCEPT !.returned = TRUE,
                          !.valid = isValidFarmingContent(call.text)]
  /\ UNCHANGED <<activities, now, req, redemptions>>

ContentNext == CallCalculateContentQualityScore \/ CallIsValidFarmingContent

ContentSpec == ContentInit /\ [][ContentNext]_vars

(***************************************************************************)
(* analyzeAudio and the pre-check of the route on its score                *)
(***************************************************************************)
\* file sizes go up to MaxKilobytes thousand bytes
MaxKilobytes == 61

\* every multiple of a thousand bytes, one byte less and one byte more
AudioSizes ==
  {k * 1000 + d : k \in 0..MaxKilobytes, d \in {-1, 0, 1}} \ {-1}

AudioInit ==
  /\ activities = <<>>
  /\ now = 0
  /\ req = [r \in Reqs |-> IdleReq]
  /\ redemptions = <<>>
  /\ \E fileSize \in AudioSizes :
       call = [fn |-> "analyzeAudio", fileSize |-> fileSize, returned |-> FALSE,
               score |-> NoScore, quality |-> "none", reasons |-> <<>>,
               rejected |-> FALSE]

\* audioAnalysisResult = await analyzeAudio(audioFile.path);
\* if (audioAnalysisResult.score >= 60) throw
CallAnalyzeAudio ==
  /\ call.fn = "analyzeAudio" /\ ~call.returned
  /\ LET audioAnalysisResult == analyzeAudio(call.fileSize)
     IN call' = [call EXCEPT !.returned = TRUE,
                             !.score = audioAnalysisResult.score,
                             !.quality = audioAnalysisResult.quality,
                             !.reasons = audioAnalysisResult.reasons,
                             !.rejected = audioPrecheckFails(audioAnalysisResult.score)]
  /\ UNCHANGED <<activities, now, req, redemptions>>

AudioNext == CallAnalyzeAudio

AudioSpec == AudioInit /\ [][AudioNext]_vars

(***************************************************************************)
(* calculateCredits on its own                                             *)
(***************************************************************************)
CreditCrops ==
  {NoVal, <<"r","i","c","e">>, <<"B","a","s","m","a","t","i"," ","R","i","c","e">>,
   <<"c","o","t","t","o","n"," ","a","n","d"," ","r","i","c","e">>,
   <<"w","h","e","a","t">>, <<"m","a","i","z","e">>}

CreditAreas ==
  {NoVal, <<"2"," ","a","c","r","e","s">>, <<"1","2"," ","a","c","r","e","s">>,
   <<"a","b","o","u","t"," ","3"," ","a","c","r","e","s">>,
   <<"h","a","l","f"," ","a","n"," ","a","c","r","e">>,
   <<"0",".","5"," ","a","c","r","e">>}

CreditDescriptions == {<<>>, <<"s","h","o","r","t"," ","n","o","t","e">>, TxtCompost}

\* options.qualityScore: undefined, or a score of calculateContentQualityScore
CreditQualities == {NoScore, 20, 30, 35, 49, 50, 65, 90}

\* every caller leaves options.requireFarmingContent at true
CreditInit ==
  /\ activities = <<>>
  /\ now = 0
  /\ req = [r \in Reqs |-> IdleReq]
  /\ redemptions = <<>>
  /\ \E activity_type \in DOMAIN BASE_CREDITS, crop_name \in CreditCrops,
        area \in CreditAreas, description \in CreditDescriptions,
        qualityScore \in CreditQualities :
       call = [fn |-> "calculateCredits",
               input |-> [activity_type |-> activity_type, crop_name |-> crop_name,
                          area |-> area, description |-> description],
               qualityScore |-> qualityScore, requireFarmingContent |-> TRUE,
               returned |-> FALSE, result |-> 0]

CallCalculateCredits ==
  /\ call.fn = "calculateCredits" /\ ~call.returned
  /\ call' = [call EXCEPT
                !.returned = TRUE,
                !.result = calculateCredits(call.input, call.qualityScore,
                                            call.requireFarmingContent)]
  /\ UNCHANGED <<activities, now, req, redemptions>>

CreditNext == CallCalculateCredits

CreditSpec == CreditInit /\ [][CreditNext]_vars

(***************************************************************************)
(* routes/redemptions.ts: POST /redeem, two requests in flight             *)
(***************************************************************************)
\* rows the redemptions table can hold
MaxRedemptions == 4

\* the rewards table: two of the sample rewards and one withdrawn
Rewards ==
  {[id |-> "seeds", credits_cost |-> 500, available |-> TRUE],
   [id |-> "kit",   credits_cost |-> 300, available |-> TRUE],
   [id |-> "old",   credits_cost |-> 100, available |-> FALSE]}

\* SUM(credits_earned) of the user's activities minus SUM(credits_spent) of
\* the user's redemptions, each COALESCEd to 0
get_user_credits(p_user_id, activityRows, redemptionRows) ==
  LET RECURSIVE total(_, _)
      total(rows, column) ==
        IF rows = <<>> THEN 0
        ELSE (IF Head(rows).user_id = p_user_id THEN Head(rows)[column] ELSE 0)
               + total(Tail(rows), column)
  IN total(activityRows, "credits_earned") - total(redemptionRows, "credits_spent")

\* u1 has earned 5 * 138 = 690 credits, u2 none; req.body.rewardId is "" when
\* it is missing
RedeemInit ==
  /\ activities = WindowStart
  /\ now = 0
  /\ req = [r \in PairReqs |->
              [pc |-> "idle", userId |-> "", rewardId |-> "", credits_cost |-> 0,
               currentCredits |-> 0, status |-> 0, remaining_credits |-> 0]]
  /\ redemptions = <<>>
  /\ call = NoCall

\* the handler of POST /redeem, one await at a time
Redeem(r) ==
  \* a request arrives; if (!rewardId) throw 400
  \/ /\ req[r].pc = "idle"
     /\ \E userId \in CrossUsers, rewardId \in {"", "seeds", "kit", "old"} :
          req' = [req EXCEPT ![r] =
            [@ EXCEPT !.userId = userId, !.rewardId = rewardId,
                      !.credits_cost = 0, !.currentCredits = 0,
                      !.remaining_credits = 0,
                      !.status = IF rewardId = "" THEN 400 ELSE 0,
                      !.pc = IF rewardId = "" THEN "done" ELSE "reward"]]
     /\ UNCHANGED <<activities, now, call, redemptions>>
  \* from('rewards').eq('id', rewardId).eq('available', true).single()
  \/ /\ req[r].pc = "reward"
     /\ LET found == {w \in Rewards : w.id = req[r].rewardId /\ w.available}
        IN req' = [req EXCEPT ![r] =
             IF found = {} THEN [@ EXCEPT !.status = 404, !.pc = "done"]
             ELSE [@ EXCEPT !.credits_cost = (CHOOSE w \in found : TRUE).credits_cost,
                            !.pc = "credits"]]
     /\ UNCHANGED <<activities, now, call, redemptions>>
  \* rpc('get_user_credits'); if (currentCredits < reward.credits_cost) throw 400
  \/ /\ req[r].pc = "credits"
     /\ \E creditsError \in BOOLEAN :
          LET currentCredits == get_user_credits(req[r].userId, activities, redemptions)
          IN req' = [req EXCEPT ![r] =
               IF creditsError THEN [@ EXCEPT !.status = 500, !.pc = "done"]
               ELSE IF currentCredits < req[r].credits_cost
                 THEN [@ EXCEPT !.currentCredits = currentCredits,
                                !.status = 400, !.pc = "done"]
               ELSE [@ EXCEPT !.currentCredits = currentCredits, !.pc = "insert"]]
     /\ UNCHANGED <<activities, now, call, redemptions>>
  \* from('redemptions').insert({user_id, reward_id, credits_spent})
  \/ /\ req[r].pc = "insert"
     /\ \E redemptionError \in BOOLEAN :
          IF redemptionError
          THEN /\ req' = [req EXCEPT ![r] = [@ EXCEPT !.status = 500, !.pc = "done"]]
               /\ UNCHANGED redemptions
          ELSE /\ Len(redemptions) < MaxRedemptions
               /\ redemptions' = Append(redemptions,
                    [user_id |-> req[r].userId, reward_id |-> req[r].rewardId,
                     credits_spent |-> req[r].credits_cost])
               /\ req' = [req EXCEPT ![r] = [@ EXCEPT !.pc = "respond"]]
     /\ UNCHANGED <<activities, now, call>>
  \* rpc('get_user_credits') again; res.status(201)
  \/ /\ req[r].pc = "respond"
     /\ req' = [req EXCEPT ![r] =
          [@ EXCEPT !.remaining_credits =
                      get_user_credits(req[r].userId, activities, redemptions),
                    !.status = 201, !.pc = "done"]]
     /\ UNCHANGED <<activities, now, call, redemptions>>
  \* the slot takes the next request
  \/ /\ req[r].pc = "done"
     /\ req' = [req EXCEPT ![r] = [@ EXCEPT !.pc = "idle"]]
     /\ UNCHANGED <<activities, now, call, redemptions>>

RedeemNext == \E r \in PairReqs : Redeem(r)

RedeemSpec == RedeemInit /\ [][RedeemNext]_vars

TypeOK ==
  /\ now \in 0..MaxNow
  /\ Len(activities) <= MaxActivities
  /\ \A r \in Reqs : req[r].pc \in {"idle", "analyze", "transcribe", "content", "extract",
                                    "verifyLocation", "verifyFrequency", "verifyPattern",
                                    "insert", "done"}

(***************************************************************************)
(* Properties                                                              *)
(***************************************************************************)
Done(st) == st.pc = "done"

\* verifyActivity has returned and the audio score has been added
Aggregated(st) ==
  \/ st.pc = "insert"
  \/ Done(st) /\ (st.response.status = 201
                    \/ st.rejectedAt \in {"fraud", "unexpected", "credits", "insert"})

Rows == {activities[i] : i \in 1..Len(activities)}

\* C1: an aggregate fraud score (verifyActivity's score plus the audio score
\* when audio was analysed) of 70 or more is rejected with an error and
\* inserts nothing, an aggregate of 69 or less is not rejected by the fraud
\* gate, and no stored row has fraud_score >= 70
C1_FraudGateRejects ==
  /\ \A r \in Reqs :
       Aggregated(req[r]) =>
         /\ (req[r].verificationResult.fraudScore >= 70)
              <=> (Done(req[r]) /\ req[r].rejectedAt = "fraud")
         /\ req[r].rejectedAt = "fraud"
              => req[r].response.status = 400 /\ req[r].inserted = 0
  /\ \A row \in Rows : row.fraud_score < 70

C1_Witness ==
  \E r \in Reqs :
    /\ Done(req[r]) /\ req[r].rejectedAt = "fraud"
    /\ req[r].hasAnalysis
    /\ req[r].verificationResult.fraudScore = 70

\* C2: every stored row with an aggregate fraud score in [30,70) has
\* verification_status 'flagged' and flagged_for_review true, and 'verified'
\* is stored only for aggregates below 30
C2_FlaggedFrom30 ==
  \A row \in Rows :
    /\ (row.fraud_score >= 30 /\ row.fraud_score < 70)
         => row.verification_status = "flagged" /\ row.flagged_for_review
    /\ row.verification_status = "verified" => row.fraud_score < 30

\* the raw texts a run can carry, and those of them that are valid farming
\* content
RawTexts ==
  {<<>>} \cup {s.description : s \in Submissions} \cup {trim(a.transcript) : a \in SpeechAnswers}

ValidTexts == {t \in RawTexts : isValidFarmingContent(t)}

\* the gates a run has passed when it reaches the insert
PassedAllGates(st) ==
  /\ st.hasAudio \/ ~(falsy(st.description) \/ trim(st.description) = <<>>)
  /\ st.hasAudio => st.hasAnalysis /\ st.audioScore < 60
  /\ st.rawText \in ValidTexts
  /\ isValidFarmingExtraction(st.extractedData)
  /\ st.verificationResult.fraudScore < 70
  /\ st.creditsEarned # 0

\* C3: a run inserts exactly one row when it answers success and none when
\* it answers with an error; the insert comes after every rejection gate has
\* passed and is the last change of the table by the run; stored rows are
\* never updated or deleted
C3_InsertOnceAtEnd ==
  /\ [](\A r \in Reqs :
          /\ Done(req[r]) =>
               /\ req[r].response.status = 201 => req[r].inserted = 1
               /\ req[r].response.status # 201 => req[r].inserted = 0
          /\ req[r].inserted <= 1
          /\ req[r].inserted = 1 => Done(req[r]) /\ PassedAllGates(req[r]))
  /\ [][/\ Len(activities') >= Len(activities)
        /\ Len(activities') <= Len(activities) + 1
        /\ SubSeq(activities', 1, Len(activities)) = activities
        /\ Len(activities') = Len(activities) + 1 =>
             \E r \in Reqs : /\ req[r].pc = "insert" /\ Done(req'[r])
                             /\ req'[r].response.status = 201
                             /\ req'[r].inserted = 1
        /\ \A r \in Reqs :
             (~Done(req[r]) /\ Done(req'[r]) /\ req'[r].response.status = 201) =>
               /\ Len(activities') = Len(activities) + 1
               /\ activities'[Len(activities')].user_id = req[r].userId]_vars

C3_Witness ==
  \E r \in Reqs :
    /\ Done(req[r]) /\ req[r].response.status = 201
    /\ req[r].inserted = 1
    /\ Len(activities) = 1

C5_AudioShortCircuit ==
  \A r \in Reqs :
    req[r].hasAnalysis =>
      /\ req[r].audioScore >= 60 =>
           /\ Done(req[r]) /\ req[r].rejectedAt = "audio"
           /\ req[r].response.status = 400
           /\ req[r].calls = {"analyzeAudio"}
           /\ req[r].inserted = 0
      /\ (req[r].audioScore >= 30 /\ req[r].audioScore < 60) =>
           /\ req[r].rejectedAt # "audio"
           /\ req[r].pc = "transcribe" \/ "transcribeAudio" \in req[r].calls

C5_Witness ==
  \E r \in Reqs :
    /\ Done(req[r]) /\ req[r].rejectedAt = "audio"
    /\ req[r].audioScore >= 60

\* C6: when isValidFarmingContent(rawText) is false the submission is
\* rejected with an error and never stored, and extraction, verification,
\* credit calculation and the insert are not executed
C6_InvalidContentRejected ==
  \A r \in Reqs :
    ("isValidFarmingContent" \in req[r].calls /\ req[r].rawText \notin ValidTexts) =>
      /\ Done(req[r]) /\ req[r].rejectedAt = "content"
      /\ req[r].response.status = 400
      /\ req[r].inserted = 0
      /\ req[r].calls \cap {"extractActivityData", "verifyActivity",
                            "calculateCredits", "insert"} = {}

C6_Witness ==
  \E r \in Reqs :
    /\ Done(req[r]) /\ req[r].rejectedAt = "content"
    /\ req[r].rawText = TxtFiller

\* C7: when the transcription call fails, the run continues with the given
\* description as raw text, and is rejected at this step only when no
\* description was given
C7_TranscriptionFallback ==
  \A r \in Reqs :
    req[r].transcribeFailed =>
      IF falsy(req[r].description)
      THEN Done(req[r]) /\ req[r].rejectedAt = "transcription"
      ELSE req[r].rejectedAt # "transcription" /\ req[r].rawText = req[r].description

\* C8: a failure of the extraction service (call error, answer without
\* JSON, unparsable JSON) never fails the run: the fallback record is used
\* and the run is not rejected by an extraction error
C8_ExtractionNeverFails ==
  \A r \in Reqs :
    req[r].extractionFailed => req[r].rejectedAt # "extraction_error"

\* C9: for a claimed location with latitude in [-90,90] and longitude in
\* [-180,180], latitude 0 and longitude 0 included, verifyLocation answers
\* valid with a score made of the low-accuracy 20 and the repeated-location 15
C9_InRangeLocationValid ==
  \A r \in Reqs :
    (/\ req[r].hasLocation
     /\ req[r].latitude >= -90 /\ req[r].latitude <= 90
     /\ req[r].longitude >= -180 /\ req[r].longitude <= 180) =>
      /\ req[r].locationCheck.valid
      /\ req[r].locationCheck.score \in {0, 15, 20, 35}

\* C10: every stored row has credits_earned > 0, and a run whose
\* calculateCredits returned 0 is rejected with a validation error and
\* inserts nothing
C10_NoZeroCreditRow ==
  /\ \A row \in Rows : row.credits_earned > 0
  /\ \A r \in Reqs :
       ("calculateCredits" \in req[r].calls /\ req[r].rejectedAt # "unexpected"
          /\ req[r].creditsEarned = 0) =>
         /\ Done(req[r]) /\ req[r].rejectedAt = "credits"
         /\ req[r].response.status = 400
         /\ req[r].inserted = 0

C10_Witness ==
  \E r \in Reqs :
    /\ Done(req[r]) /\ req[r].rejectedAt = "credits"
    /\ req[r].creditsEarned = 0
    /\ req[r].extractedData.activity_type = "other"

\* the run has answered 201: its row is stored
Persisted(st) == Done(st) /\ st.response.status = 201

\* the inputs the credit award is derived from
SameCreditInputs(a, b) ==
  /\ a.extractedData.activity_type = b.extractedData.activity_type
  /\ a.extractedData.crop_name = b.extractedData.crop_name
  /\ a.extractedData.area = b.extractedData.area
  /\ a.extractedData.description = b.extractedData.description
  /\ a.qualityScore = b.qualityScore

\* C11: two persisted submissions with the same extracted category, crop
\* name, area, description and content-quality score have the same
\* credits_earned, in the answer and in the stored row, whatever their
\* location, audio score, history and fraud score are
C11_CreditsIgnoreFraudSignals ==
  /\ \A r1, r2 \in PairReqs :
       (Persisted(req[r1]) /\ Persisted(req[r2]) /\ SameCreditInputs(req[r1], req[r2]))
         => req[r1].response.credits_earned = req[r2].response.credits_earned
  /\ \A r \in PairReqs :
       Persisted(req[r]) =>
         \E i \in 1..Len(activities) :
           /\ activities[i].credits_earned = req[r].response.credits_earned
           /\ activities[i].fraud_score = req[r].response.fraud_score

C11_Witness ==
  \E r1, r2 \in PairReqs :
    /\ Persisted(req[r1]) /\ Persisted(req[r2])
    /\ SameCreditInputs(req[r1], req[r2])
    /\ req[r1].audioScore # req[r2].audioScore
    /\ req[r1].hasLocation /\ ~req[r2].hasLocation
    /\ req[r1].response.fraud_score = 0
    /\ req[r2].response.fraud_score >= 30
    /\ Len(activities) = 2
    /\ req[r1].response.credits_earned = req[r2].response.credits_earned

\* calculateCredits has returned for the call under check
CreditsReturned == call.fn = "calculateCredits" /\ call.returned

\* round(base[category] * cropMultiplier * min(1 + 0.1*area, 2.0) * (0.5 + q/100))
\* in exact arithmetic
CreditFormula(input, q) ==
  roundDiv(BASE_CREDITS[input.activity_type] * cropMultiplierOf(input.crop_name)
             * Min(100 + extractAreaValue(input.area), 200) * (50 + q), 1000000)

\* C12: for a category other than 'other' and a defined quality score
\* q >= 30, calculateCredits returns
\* round(base * cropMultiplier * min(1 + 0.1*area, 2.0) * (0.5 + q/100));
\* (soil_health, 'rice', '2 acres', q = 90) yields 121
C12_CreditFormula ==
  (/\ CreditsReturned
   /\ call.input.activity_type # "other"
   /\ call.qualityScore # NoScore /\ call.qualityScore >= 30) =>
    /\ call.result = CreditFormula(call.input, call.qualityScore)
    /\ (/\ call.input.activity_type = "soil_health"
        /\ call.input.crop_name = <<"r","i","c","e">>
        /\ call.input.area = <<"2"," ","a","c","r","e","s">>
        /\ call.qualityScore = 90) => call.result = 121

\* C13: for category 'other', calculateCredits returns 0 when the quality
\* score is defined and below 50, or undefined with a description of fewer
\* than 15 characters; with a defined quality score >= 50 the description
\* length plays no role and the result is the positive rounded formula value
C13_OtherGate ==
  (CreditsReturned /\ call.input.activity_type = "other") =>
    /\ (call.qualityScore # NoScore /\ call.qualityScore < 50) => call.result = 0
    /\ (call.qualityScore = NoScore /\ Len(trim(call.input.description)) < 15)
         => call.result = 0
    /\ (call.qualityScore # NoScore /\ call.qualityScore >= 50) =>
         /\ call.result > 0
         /\ call.result = CreditFormula(call.input, call.qualityScore)

\* the length of a text after trimming and collapsing whitespace runs
CollapsedLength(text) == Len(trim(collapseWhitespace(text)))

\* C14: for every text whose length after trimming and collapsing
\* whitespace runs is below 15, calculateContentQualityScore returns 0 and
\* isValidFarmingContent returns false
C14_ShortTextScoresZero ==
  (call.fn \in {"calculateContentQualityScore", "isValidFarmingContent"}
     /\ call.returned /\ CollapsedLength(call.text) < 15) =>
    /\ call.fn = "calculateContentQualityScore" => call.score = 0
    /\ call.fn = "isValidFarmingContent" => ~call.valid

C14_Witness ==
  /\ call.fn = "calculateContentQualityScore" /\ call.returned
  /\ CollapsedLength(call.text) < 15
  /\ Len(trim(call.text)) >= 15
  /\ includes(call.text, <<"r","i","c","e">>)
  /\ includes(call.text, <<"p","l","a","n","t","e","d">>)
  /\ call.score = 0

\* every whitespace-separated word of the text is a filler word
AllFillerWords(text) ==
  LET pieces == splitWhitespace(text)
  IN \A i \in 1..Len(pieces) :
       pieces[i] = <<>> \/ toLowerCase(pieces[i]) \in SeqRange(FILLER_WORDS)

\* C15: for every text in which every whitespace-separated word belongs to
\* the filler-word list, calculateContentQualityScore returns at most
\* max(0, lengthScore - 50) and isValidFarmingContent returns false
C15_FillerTextScoresLow ==
  (call.fn \in {"calculateContentQualityScore", "isValidFarmingContent"}
     /\ call.returned /\ AllFillerWords(call.text)) =>
    /\ call.fn = "calculateContentQualityScore" =>
         call.score <= Max(0, lengthScore(CollapsedLength(call.text)) - 50)
    /\ call.fn = "isValidFarmingContent" => ~call.valid

C15_Witness ==
  /\ call.fn = "calculateContentQualityScore" /\ call.returned
  /\ AllFillerWords(call.text)
  /\ CollapsedLength(call.text) >= 15
  /\ includes(call.text, <<"T","e","s","t","i","n","g">>)
  /\ call.score = 0

\* rows of a user created in the 24 hours that start at a time
RowsOfDay(userId, start) ==
  {j \in 1..Len(activities) :
     /\ activities[j].user_id = userId
     /\ activities[j].created_at >= start
     /\ activities[j].created_at < start + ONE_DAY}

\* C16: a user never has more than 10 persisted activity records created
\* within any 24-hour window
C16_DailyLimit ==
  \A i \in 1..Len(activities) :
    Cardinality(RowsOfDay(activities[i].user_id, activities[i].created_at)) <= 10

\* C17: a user never has two persisted activity records of the same
\* activity type created less than 1 hour apart
C17_NoSameTypeWithinHour ==
  \A i, j \in 1..Len(activities) :
    (i < j /\ activities[i].user_id = activities[j].user_id
       /\ activities[i].activity_type = activities[j].activity_type) =>
      activities[j].created_at - activities[i].created_at >= ONE_HOUR

\* five or more rows of the user were created in the preceding 10 minutes
FivePersistedInTenMinutes(userId) ==
  Len(rowsSince(activities, userId, now - TEN_MINUTES)) >= 5

GotRapidFire(st) == "rapid_fire" \in SeqRange(st.allReasons)

C18_FraudScoreInRange ==
  /\ \A r \in Reqs :
       Aggregated(req[r]) =>
         /\ req[r].verificationResult.fraudScore \in 0..100
         /\ req[r].response.fraud_score \in 0..100
  /\ \A i \in 1..Len(activities) : activities[i].fraud_score \in 0..100

\* a run of a user without earlier rows, on a text without audio that passed
\* the content check, with an in-range location of accuracy <= 50 m, after
\* the location check
ColdStartRun(st) ==
  /\ st.pc \in {"verifyFrequency", "verifyPattern", "insert", "done"}
  /\ "verifyActivity" \in st.calls
  /\ ~st.hasAudio /\ st.isValidContent
  /\ st.hasLocation
  /\ st.latitude >= -90 /\ st.latitude <= 90
  /\ st.longitude >= -180 /\ st.longitude <= 180
  /\ st.location_accuracy # NoNum /\ st.location_accuracy <= 50
  /\ CreditFormula(st.extractedData, st.qualityScore) > 0
  /\ Len(rowsSince(activities, st.userId, 0)) = st.inserted

\* C19: for a user with no prior records, a submission without audio whose
\* text passes content validation, with an in-range location of accuracy
\* <= 50 m and a category that earns credits, gets Geo = 0, Frequency = 0
\* and Pattern = 0, hence fraud score 0, and is persisted as 'verified',
\* not flagged, with the credits of the credit formula
C19_ColdStartVerified ==
  \A r \in Reqs :
    ColdStartRun(req[r]) =>
      /\ req[r].locationCheck.score = 0
      /\ req[r].totalScore = 0
      /\ Aggregated(req[r]) =>
           /\ req[r].verificationResult.fraudScore = 0
           /\ ~req[r].verificationResult.flagged
      /\ Done(req[r]) => req[r].rejectedAt \in {"none", "insert"}
      /\ Persisted(req[r]) =>
           /\ req[r].response.verification_status = "verified"
           /\ req[r].response.credits_earned
                = CreditFormula(req[r].extractedData, req[r].qualityScore)
           /\ \E i \in 1..Len(activities) :
                /\ activities[i].user_id = req[r].userId
                /\ activities[i].verification_status = "verified"
                /\ ~activities[i].flagged_for_review
                /\ activities[i].fraud_score = 0
                /\ activities[i].credits_earned = req[r].response.credits_earned

\* a row of the user with the category, created in the hour before the clock
SameTypeRowWithinHour(userId, activityType) ==
  \E i \in 1..Len(activities) :
    /\ activities[i].user_id = userId
    /\ activities[i].activity_type = activityType
    /\ activities[i].created_at >= now - ONE_HOUR

GotDuplicateType(st) == "same_type_within_hour" \in SeqRange(st.allReasons)

\* C21: the history checks decide on the table as it is at the read, and
\* the insert stores that decision whatever the table holds by then: a run
\* gets the +30 duplicate-type contribution exactly when a same-category row
\* of the user within the hour exists at its read, and its row carries the
\* status and the score decided before the insert.  Two concurrent runs of
\* one user and one category that both read before either insert are both
\* stored as verified
C21_ReadThenDecide ==
  [][\A r \in PairReqs :
       /\ (req[r].pc = "verifyFrequency" /\ req'[r].pc = "verifyPattern") =>
            (GotDuplicateType(req'[r])
               <=> SameTypeRowWithinHour(req[r].userId, req[r].extractedData.activity_type))
       /\ (req[r].pc = "insert" /\ req'[r].pc = "done"
              /\ Len(activities') = Len(activities) + 1) =>
            /\ activities'[Len(activities')].verification_status
                 = verificationStatus(req[r].verificationResult)
            /\ activities'[Len(activities')].flagged_for_review
                 = req[r].verificationResult.flagged
            /\ activities'[Len(activities')].fraud_score
                 = req[r].verificationResult.fraudScore]_vars

C21_Witness ==
  /\ Len(activities) = 2
  /\ activities[1].user_id = activities[2].user_id
  /\ activities[1].activity_type = activities[2].activity_type
  /\ activities[2].created_at - activities[1].created_at < ONE_HOUR
  /\ activities[1].verification_status = "verified"
  /\ activities[2].verification_status = "verified"
  /\ \A r \in PairReqs : Persisted(req[r]) /\ ~GotDuplicateType(req[r])

\* the rows of one user
OwnRows(userId) == SelectSeq(activities, LAMBDA a : a.user_id = userId)

\* C22: the outcome of a submission depends only on the submission and on
\* the rows of its own user: each history check gives what it gives on the
\* table without the rows of other users, and a step of another request
\* leaves the run untouched
C22_OtherUsersIgnored ==
  [][\A r \in PairReqs :
       LET st == req[r]
           own == OwnRows(st.userId)
       IN /\ (st.pc = "verifyLocation" /\ req'[r].pc = "verifyFrequency"
                 /\ req'[r].hasLocation) =>
               req'[r].locationCheck
                 = verifyLocation([latitude |-> req'[r].latitude,
                                   longitude |-> req'[r].longitude,
                                   accuracy |-> req'[r].location_accuracy],
                                  rowsSince(own, st.userId, now - FIVE_MINUTES))
          /\ (st.pc = "verifyFrequency" /\ req'[r].pc = "verifyPattern") =>
               LET timeCheck == verifyTimestampAndFrequency(
                                  st.userId, st.extractedData.activity_type, own, now)
               IN /\ req'[r].totalScore = st.totalScore + timeCheck.score
                  /\ req'[r].allReasons = st.allReasons \o timeCheck.reasons
          /\ (st.pc = "verifyPattern" /\ req'[r].pc # "verifyPattern") =>
               LET patternCheck == verifyActivityPattern(
                                     st.userId, st.extractedData.activity_type,
                                     st.extractedData.crop_name, own)
               IN /\ req'[r].totalScore = st.totalScore + patternCheck.score
                  /\ req'[r].allReasons = st.allReasons \o patternCheck.reasons
          /\ (\E other \in PairReqs \ {r} : req'[other] # req[other]) =>
               req'[r] = st]_vars

C22_Witness ==
  /\ Len(activities) = 2
  /\ activities[1].user_id = "u2" /\ activities[2].user_id = "u1"
  /\ activities[1].activity_type = activities[2].activity_type
  /\ activities[1].latitude = activities[2].latitude
  /\ activities[2].verification_status = "verified"
  /\ activities[2].fraud_score = 0
  /\ \E r \in PairReqs :
       /\ req[r].userId = "u1" /\ Persisted(req[r])
       /\ req[r].allReasons = <<>>

\* the distinct keywords of the vocabulary that occur in a text
DistinctKeywords(text) ==
  {FARMING_KEYWORDS[k] : k \in {j \in 1..Len(FARMING_KEYWORDS) :
                                  includes(toLowerCase(text), FARMING_KEYWORDS[j])}}

\* the score is the sum of its contributions: no penalty, no early return
PlainlyScored(text) ==
  /\ CollapsedLength(text) >= MIN_MEANINGFUL_LENGTH
  /\ ~AllFillerWords(text)
  /\ ~isRepeatedContent(trim(text))

\* what the score holds beyond the length and the activity-indicator points
KeywordPoints(text, score) ==
  score - lengthScore(CollapsedLength(text))
        - (IF hasActivityIndicators(trim(text)) THEN 20 ELSE 0)

\* C23: the keyword contribution of calculateContentQualityScore is 5 points
\* per distinct vocabulary keyword that occurs in the text, capped at 40; a
\* text with exactly one distinct keyword earns exactly 5 keyword points
C23_FivePerDistinctKeyword ==
  (call.fn = "calculateContentQualityScore" /\ call.returned
     /\ PlainlyScored(call.text)) =>
    KeywordPoints(call.text, call.score)
      = Min(5 * Cardinality(DistinctKeywords(call.text)), 40)

\* rows of a user created in the 10 minutes that start at a time
RowsOfTenMinutes(userId, start) ==
  {j \in 1..Len(activities) :
     /\ activities[j].user_id = userId
     /\ activities[j].created_at >= start
     /\ activities[j].created_at <= start + TEN_MINUTES}

DurationPoints(size) ==
  IF size < 3 * 12000 THEN 30 ELSE IF size < 5 * 12000 THEN 15 ELSE 0

SizePoints(size) == IF size < 5000 THEN 30 ELSE IF size < 10000 THEN 10 ELSE 0

RatioPoints(size) ==
  IF (IF size < 12000 THEN size ELSE 12000) < 1000 THEN 15 ELSE 0

\* C24: the score of analyzeAudio is the sum of the duration, size and
\* ratio contributions (30 or 15, 30 or 10, 15), and the quality is good
\* below 20, fair below 40 and poor otherwise
C24_AudioContributions ==
  (call.fn = "analyzeAudio" /\ call.returned) =>
    /\ call.score = DurationPoints(call.fileSize) + SizePoints(call.fileSize)
                      + RatioPoints(call.fileSize)
    /\ call.quality = IF call.score < 20 THEN "good"
                      ELSE IF call.score < 40 THEN "fair" ELSE "poor"
    /\ Len(call.reasons) =
         (IF DurationPoints(call.fileSize) > 0 THEN 1 ELSE 0)
         + (IF SizePoints(call.fileSize) > 0 THEN 1 ELSE 0)
         + (IF RatioPoints(call.fileSize) > 0 THEN 1 ELSE 0)

\* a file of 999 bytes gets all three contributions
C24_Witness ==
  /\ call.fn = "analyzeAudio" /\ call.returned
  /\ call.fileSize = 999
  /\ call.score = 75 /\ call.quality = "poor" /\ Len(call.reasons) = 3

\* C28: the score is at least 60, and the pre-check rejects, exactly for
\* files below 5000 bytes; from 5000 bytes on the score is at most 40; the
\* low-quality reason is given only below 1000 bytes
C28_RejectedBelowFiveThousand ==
  (call.fn = "analyzeAudio" /\ call.returned) =>
    /\ (call.score >= 60) <=> (call.fileSize < 5000)
    /\ call.rejected <=> (call.fileSize < 5000)
    /\ call.fileSize >= 5000 => call.score <= 40
    /\ (\E i \in 1..Len(call.reasons) : call.reasons[i] = "audio_low_quality")
         <=> (call.fileSize < 1000)

\* a file of 4999 bytes scores exactly 60 and is rejected
C28_Witness ==
  /\ call.fn = "analyzeAudio" /\ call.returned
  /\ call.fileSize = 4999
  /\ call.score = 60 /\ call.rejected

\* number of rows of a user in a table created at or after a time
CountSince(table, userId, since) ==
  Cardinality({i \in 1..Len(table) :
                 table[i].user_id = userId /\ table[i].created_at >= since})

\* the frequency score of a user and category on a table at the current clock
FrequencyScore(table, userId, activityType) ==
  verifyTimestampAndFrequency(userId, activityType, table, now).score

\* the records that can be added to the history: any user, category and time
\* of creation at an edge of the trailing windows
AddedRecords ==
  {[user_id |-> u, activity_type |-> t, crop_name |-> NoVal,
    latitude |-> 12, longitude |-> 77, created_at |-> c,
    verification_status |-> "verified", fraud_score |-> 0,
    flagged_for_review |-> FALSE, credits_earned |-> 1] :
     u \in CrossUsers, t \in {"organic_input", "other"},
     c \in {c \in {0, now - TEN_MINUTES - 1, now - TEN_MINUTES, now} : c >= 0}}

C26_NeverPending ==
  /\ \A i \in 1..Len(activities) :
       /\ activities[i].verification_status \in {"flagged", "verified"}
       /\ activities[i].verification_status = "flagged"
            <=> activities[i].flagged_for_review
  /\ \A r \in Reqs :
       req[r].pc \in {"insert", "done"} /\ req[r].verificationResult # NoVerification =>
         /\ ~req[r].verificationResult.passed => req[r].verificationResult.flagged
         /\ verificationStatus(req[r].verificationResult) # "pending"

\* a row stored on a decision with passed false: a total from 50 to 69
C26_Witness ==
  \E r \in Reqs :
    /\ req[r].pc = "done" /\ req[r].response.status = 201
    /\ ~req[r].verificationResult.passed
    /\ req[r].verificationResult.fraudScore \in 50..69
    /\ req[r].verificationResult.flagged
    /\ activities[Len(activities)].verification_status = "flagged"

\* an activity indicator occurs in the lower-cased text
SomeIndicator(text) ==
  \E k \in 1..Len(ACTIVITY_INDICATORS) :
    includes(toLowerCase(text), ACTIVITY_INDICATORS[k])

\* C29: a text accepted by isValidFarmingContent contains a farming keyword
\* or an activity indicator and has a quality score of at least 30; a text
\* with neither scores at most 30, below the 70 of the exemption
C29_ValidHasKeywordOrIndicator ==
  /\ (call.fn = "isValidFarmingContent" /\ call.returned /\ call.valid) =>
       /\ DistinctKeywords(call.text) # {} \/ SomeIndicator(call.text)
       /\ calculateContentQualityScore(call.text) >= 30
  /\ (call.fn = "calculateContentQualityScore" /\ call.returned
        /\ DistinctKeywords(call.text) = {} /\ ~SomeIndicator(call.text)) =>
       call.score <= 30

\* an accepted text with a keyword and an indicator
C29_Witness ==
  /\ call.fn = "isValidFarmingContent" /\ call.returned /\ call.valid
  /\ includes(call.text, <<"r","i","c","e">>)
  /\ includes(call.text, <<"p","l","a","n","t","e","d">>)

\* C30: the credit balance of a user, credits earned minus credits spent,
\* is never negative, whatever the interleaving of redeem requests
C30_BalanceNeverNegative ==
  \A u \in CrossUsers : get_user_credits(u, activities, redemptions) >= 0

====
